---- MODULE Spec2Model ----
(***************************************************************************)
(* Hamster - Ham Radio Manager.                                            *)
(*                                                                         *)
(* A model of the two launchers of the repository:                         *)
(*   src/hamster-adaptive.py  EnvironmentDetector, AdaptiveHamsterGUI      *)
(*   src/hamster-gui.py       HamsterGUI                                   *)
(*                                                                         *)
(* Specifications                                                          *)
(*   SpecDetect  EnvironmentDetector.__init__, load_config, setup_window    *)
(*   SpecSelect  setup_window as a function of an arbitrary descriptor     *)
(*   SpecPoll    AdaptiveHamsterGUI from setup_styles on: the rest of the  *)
(*               constructor, the event loop and the status-poll workers   *)
(*   SpecConfig  AdaptiveHamsterGUI from load_config on, over the          *)
(*               preference files the home directory can hold              *)
(*   SpecProbe   EnvironmentDetector.__init__ over the outcomes of each    *)
(*               probe (udevadm, xrandr, tk.Tk)                            *)
(*   SpecReload  load_config and save_config across two sessions           *)
(*   SpecApp     AdaptiveHamsterGUI from setup_styles on, with the         *)
(*               handlers of the user's actions                            *)
(*   SpecInstall AdaptiveHamsterGUI from setup_styles on, with the         *)
(*               dependency handlers, over the terminals installed         *)
(*   SpecLife    the launcher from the detector's constructor through the  *)
(*               window's constructor into the event loop                  *)
(*   SpecGui     HamsterGUI from check_system_status on                    *)
(***************************************************************************)
EXTENDS Integers, Sequences, FiniteSets, TLC

(***************************************************************************)
(* Bounds of the model.                                                    *)
(***************************************************************************)
\* number of /dev/input/event* nodes the host may have
MaxEventDevices == 2
\* number of /dev/input/js* nodes the host may have
MaxJoysticks == 2
\* number of lines xrandr may print
MaxLines == 2

(***************************************************************************)
(* Program constants.                                                      *)
(***************************************************************************)
DefaultWidth == 1024
DefaultHeight == 768
DefaultDpi == 96
SmallWidth == 800
SmallHeight == 480

\* Python's None where a text is expected: a value that is no text of characters
None == <<"None">>

\* the value of window_mode before setup_window has assigned it
Unset == "unset"

VARIABLES
    host,           \* what the probes of detect_environment find on the machine
    environment,    \* EnvironmentDetector.environment
    input_methods,  \* EnvironmentDetector.input_methods
    screen_info,    \* EnvironmentDetector.screen_info
    window_mode,    \* AdaptiveHamsterGUI.window_mode
    fullscreen,     \* the root window's -fullscreen attribute
    pc,             \* position of the interactive thread
    services,       \* what the status queries find on the machine
    widgets,        \* the widget attributes create_widgets has set (hasattr)
    status_labels,  \* self.status_labels: the text and colour of each label
    status_text,    \* self.status_text: the status line of the touch layout
    info_text_widget, \* self.info_text_widget: the desktop system-info text
    workers,        \* the update_status threads, in the order they were started
    dialog,         \* the modal message box open on the interactive thread
    after_cb,       \* the callback show_environment_info scheduled with root.after
    config,         \* AdaptiveHamsterGUI.config
    file,           \* the preference file on disk
    caught,         \* what the except clause of the last load_config or
                    \* save_config call caught ("none": nothing was raised)
    popen,          \* the subprocess.Popen call of the handler the interactive
                    \* thread is in: the script, and whether the call returned
    fonts,          \* the font sizes setup_styles got from get_font_size
    udevadm_calls,  \* the event devices detect_input_methods ran udevadm for,
                    \* by their position in the glob, in the order of the calls
    installed,      \* the terminal emulators `which` finds on the machine
    terminal        \* the run_script_in_terminal call of the handler the
                    \* interactive thread is in or was in last: the script, and
                    \* the terminals it started with subprocess.Popen

detVars == <<host, environment, input_methods, screen_info>>
winVars == <<window_mode, fullscreen>>
uiVars == <<widgets, status_labels, status_text, info_text_widget>>
runVars == <<services, workers, dialog, after_cb>>
cfgVars == <<config, file, caught>>
extVars == <<popen, fonts, udevadm_calls, installed, terminal>>

vars == <<detVars, winVars, pc, uiVars, runVars, cfgVars, extVars>>

(***************************************************************************)
(* Text helpers: a text is a sequence of one-character strings.            *)
(***************************************************************************)
\* str.lower() on the characters that occur in the model's texts
LowerChar(c) ==
    CASE c = "A" -> "a" [] c = "B" -> "b" [] c = "D" -> "d" [] c = "E" -> "e"
      [] c = "G" -> "g" [] c = "L" -> "l" [] c = "M" -> "m" [] c = "N" -> "n"
      [] c = "O" -> "o" [] c = "P" -> "p" [] c = "R" -> "r" [] c = "X" -> "x"
      [] OTHER -> c

Lower(s) == [i \in 1..Len(s) |-> LowerChar(s[i])]

\* Python's `needle in text`
Contains(text, needle) ==
    \E i \in 0..(Len(text) - Len(needle)) :
        SubSeq(text, i + 1, i + Len(needle)) = needle

\* Python's truth value of an optional string
Truthy(s) == s # None /\ s # <<>>

\* Python's `a or b`
PyOr(a, b) == IF Truthy(a) THEN a ELSE b

(***************************************************************************)
(* The host: what the probes can find.                                     *)
(***************************************************************************)
\* a file whose open() or read() raises
Unreadable == <<"Unreadable">>

T_BCM == <<"B", "C", "M">>
T_Raspberry == <<"R", "a", "s", "p", "b", "e", "r", "r", "y">>
T_Intel == <<"I", "n", "t", "e", "l">>

\* contents of /proc/cpuinfo
CpuInfos == {Unreadable, T_Intel, T_BCM, T_Raspberry, T_BCM \o T_Raspberry}

\* values of DESKTOP_SESSION and XDG_CURRENT_DESKTOP
DesktopSessions == {None, <<>>, <<"L", "X", "D", "E">>}
CurrentDesktops == {None, <<"G", "N", "O", "M", "E">>}

\* contents of /proc/device-tree/model
DeviceModels ==
    {Unreadable,
     <<"P", "i", "4">>,
     <<"A", "n", "b", "e", "r", "n", "i", "c">>,
     <<"R", "G", "3", "5">>,
     <<"P", "o", "w", "K", "i", "d", "d", "y">>}

ConsoleMarkers ==
    {<<"r", "g">>,
     <<"a", "n", "b", "e", "r", "n", "i", "c">>,
     <<"p", "o", "w", "k", "i", "d", "d", "y">>,
     <<"r", "e", "t", "r", "o", "i", "d">>}

Hosts ==
    [cpuinfo: CpuInfos, desktop_session: DesktopSessions,
     xdg_current_desktop: CurrentDesktops, device_model: DeviceModels,
     systemd: BOOLEAN]

(***************************************************************************)
(* EnvironmentDetector.detect_environment                                  *)
(***************************************************************************)
EnvDefault ==
    [type |-> "unknown", is_pi |-> FALSE, is_desktop |-> FALSE,
     is_console |-> FALSE, has_systemd |-> FALSE, desktop_environment |-> None]

\* f.read() on a freshly opened file is the content, a second f.read() on the
\* same handle is the empty text
FirstRead(content) == content
SecondRead(content) == <<>>

\* a Pi check that sets the type and leaves is_pi as it was
CheckPiTypeOnly(env, h) ==
    IF h.cpuinfo = Unreadable THEN env
    ELSE IF Contains(FirstRead(h.cpuinfo), T_BCM)
            \/ Contains(SecondRead(h.cpuinfo), T_Raspberry)
         THEN [env EXCEPT !.type = "raspberry_pi"]
         ELSE env

\* lines 42-49: 'BCM' in f.read() or 'Raspberry' in f.read()
CheckPi(env, h) ==
    IF h.cpuinfo = Unreadable THEN env
    ELSE IF Contains(FirstRead(h.cpuinfo), T_BCM)
            \/ Contains(SecondRead(h.cpuinfo), T_Raspberry)
         THEN [env EXCEPT !.is_pi = TRUE, !.type = "raspberry_pi"]
         ELSE env

\* a desktop check that overrides an earlier classification
CheckDesktopOverride(env, h) ==
    LET desktop_env == PyOr(h.desktop_session, h.xdg_current_desktop)
    IN  IF Truthy(desktop_env)
        THEN [env EXCEPT !.is_desktop = TRUE,
                         !.desktop_environment = Lower(desktop_env),
                         !.type = "desktop"]
        ELSE env

\* lines 51-57
CheckDesktop(env, h) ==
    LET desktop_env == PyOr(h.desktop_session, h.xdg_current_desktop)
    IN  IF Truthy(desktop_env)
        THEN [env EXCEPT !.is_desktop = TRUE,
                         !.desktop_environment = Lower(desktop_env),
                         !.type = IF env.type = "unknown" THEN "desktop" ELSE env.type]
        ELSE env

\* a handheld check that respects an earlier classification
CheckConsoleGuarded(env, h) ==
    IF h.device_model = Unreadable THEN env
    ELSE IF \E m \in ConsoleMarkers : Contains(Lower(h.device_model), m)
         THEN [env EXCEPT !.is_console = TRUE,
                          !.type = IF env.type = "unknown" THEN "gaming_console"
                                   ELSE env.type]
         ELSE env

\* lines 59-67
CheckConsole(env, h) ==
    IF h.device_model = Unreadable THEN env
    ELSE IF \E m \in ConsoleMarkers : Contains(Lower(h.device_model), m)
         THEN [env EXCEPT !.is_console = TRUE, !.type = "gaming_console"]
         ELSE env

\* lines 69-70
CheckSystemd(env, h) == [env EXCEPT !.has_systemd = h.systemd]

\* a default step without the final else branch
DefaultTypeNoFallback(env) ==
    IF env.type = "unknown"
    THEN [env EXCEPT !.type = IF env.is_desktop THEN "desktop"
                              ELSE IF env.is_pi THEN "raspberry_pi"
                              ELSE env.type]
    ELSE env

\* lines 72-79
DefaultType(env) ==
    IF env.type = "unknown"
    THEN [env EXCEPT !.type = IF env.is_desktop THEN "desktop"
                              ELSE IF env.is_pi THEN "raspberry_pi"
                              ELSE "minimal_linux"]
    ELSE env

detect_environment(h) ==
    DefaultType(CheckSystemd(CheckConsole(CheckDesktop(CheckPi(EnvDefault, h), h), h), h))

(***************************************************************************)
(* EnvironmentDetector.detect_input_methods                                *)
(***************************************************************************)
\* what `udevadm info --query=property --name=<device>` does for one node:
\* "touch" prints ID_INPUT_TOUCHSCREEN=1, "plain" prints other properties,
\* "error" raises (udevadm missing)
DeviceOutcomes == {"touch", "plain", "error"}

SeqsUpTo(S, n) == UNION {[1..k -> S] : k \in 0..n}

EventDeviceLists == SeqsUpTo(DeviceOutcomes, MaxEventDevices)

\* a scan that takes a udevadm call that raised for a touchscreen
RECURSIVE TouchScanNoTry(_, _)
TouchScanNoTry(devices, i) ==
    IF i > Len(devices) THEN FALSE
    ELSE IF devices[i] \in {"touch", "error"} THEN TRUE
    ELSE TouchScanNoTry(devices, i + 1)

\* lines 93-107: the loop over the event devices, from device i on
RECURSIVE TouchScan(_, _)
TouchScan(devices, i) ==
    IF i > Len(devices) THEN FALSE
    ELSE IF devices[i] = "error" THEN TouchScan(devices, i + 1)
    ELSE IF devices[i] = "touch" THEN TRUE
    ELSE TouchScan(devices, i + 1)

\* a scan that goes on after a match
RECURSIVE UdevadmCallsNoBreak(_, _)
UdevadmCallsNoBreak(devices, i) ==
    IF i > Len(devices) THEN <<>>
    ELSE <<i>> \o UdevadmCallsNoBreak(devices, i + 1)

\* lines 96-103: the subprocess.run calls of the loop, from device i on; the
\* break at line 103 ends them
RECURSIVE UdevadmCalls(_, _)
UdevadmCalls(devices, i) ==
    IF i > Len(devices) THEN <<>>
    ELSE IF devices[i] = "touch" THEN <<i>>
    ELSE <<i>> \o UdevadmCalls(devices, i + 1)

detect_input_methods(devices, mice, joysticks) ==
    [keyboard |-> TRUE,
     mouse |-> mice > 0,
     touchscreen |-> TouchScan(devices, 1),
     gamepad |-> joysticks > 0,
     joystick_devices |-> [i \in 1..joysticks |-> i - 1]]

(***************************************************************************)
(* EnvironmentDetector.detect_screen_info                                  *)
(***************************************************************************)
Widths == {SmallWidth, SmallWidth + 1}
Heights == {SmallHeight, SmallHeight + 1}
Resolutions == Widths \X Heights

\* one line of xrandr's output:
\*   "other"      no ' connected ' in it
\*   "notoken"    a connected output without a part holding 'x' and '+'
\*   "badtoken"   a connected output whose first such part is no WxH+X+Y
\*   "mode"       a connected output whose first such part is <width>x<height>+X+Y
Line(kind, res) == [kind |-> kind, width |-> res[1], height |-> res[2]]

XrandrLines ==
    {Line(k, <<0, 0>>) : k \in {"other", "notoken", "badtoken"}}
        \cup {Line("mode", r) : r \in Resolutions}

\* what subprocess.run(['xrandr']) does: raises, or returns these lines
XrandrOutcomes ==
    {[raises |-> TRUE, lines |-> <<>>]}
        \cup {[raises |-> FALSE, lines |-> l] : l \in SeqsUpTo(XrandrLines, MaxLines)}

\* what tk.Tk() / winfo_screenwidth / winfo_screenheight do
TkRaises == [raises |-> TRUE, width |-> 0, height |-> 0]

TkOutcomes ==
    {TkRaises}
        \cup {[raises |-> FALSE, width |-> r[1], height |-> r[2]] : r \in Resolutions}

ScreenDefault ==
    [width |-> DefaultWidth, height |-> DefaultHeight, dpi |-> DefaultDpi,
     is_small_screen |-> FALSE, is_touch_optimized |-> FALSE]

\* lines 132-143: the first connected line decides; the result is of kind
\* "badtoken" (int() raised), "notoken" or "other" (nothing assigned) or "mode"
RECURSIVE ParseXrandr(_, _)
ParseXrandr(lines, i) ==
    IF i > Len(lines) THEN Line("other", <<0, 0>>)
    ELSE IF lines[i].kind = "other" THEN ParseXrandr(lines, i + 1)
    ELSE lines[i]

\* lines 144-145: the xrandr block raised
NeedsTk(xrandr) == xrandr.raises \/ ParseXrandr(xrandr.lines, 1).kind = "badtoken"

\* lines 129-152
DetectResolution(info, xrandr, tk) ==
    LET parsed == ParseXrandr(xrandr.lines, 1)
    IN  IF NeedsTk(xrandr)
        THEN IF tk.raises THEN info
             ELSE [info EXCEPT !.width = tk.width, !.height = tk.height]
        ELSE IF parsed.kind = "mode"
             THEN [info EXCEPT !.width = parsed.width, !.height = parsed.height]
             ELSE info

\* a strict comparison in the place of line 155
IsSmallScreenStrict(width, height) == width < SmallWidth \/ height < SmallHeight

\* line 155
IsSmallScreen(width, height) == width <= SmallWidth \/ height <= SmallHeight

\* the heuristic without the Raspberry Pi disjunct
IsTouchOptimizedNoPi(touchscreen, is_small_screen, is_pi) ==
    touchscreen /\ is_small_screen

\* lines 157-159
IsTouchOptimized(touchscreen, is_small_screen, is_pi) ==
    (touchscreen /\ is_small_screen) \/ is_pi

detect_screen_info(env, inputs, xrandr, tk) ==
    LET info1 == DetectResolution(ScreenDefault, xrandr, tk)
        info2 == [info1 EXCEPT !.is_small_screen = IsSmallScreen(info1.width, info1.height)]
    IN  [info2 EXCEPT !.is_touch_optimized =
            IsTouchOptimized(inputs.touchscreen, info2.is_small_screen, env.is_pi)]

(***************************************************************************)
(* AdaptiveHamsterGUI.setup_window                                         *)
(***************************************************************************)
\* a selection that sends the desktop class to the minimal layout
SelectModeNoDesktop(env, screen) ==
    IF env.type = "gaming_console" THEN "fullscreen_console"
    ELSE IF env.type = "raspberry_pi" /\ screen.is_touch_optimized THEN "touchscreen"
    ELSE "minimal"

\* lines 229-256: the window_mode assigned
SelectMode(env, screen) ==
    IF env.type = "gaming_console" THEN "fullscreen_console"
    ELSE IF env.type = "raspberry_pi" /\ screen.is_touch_optimized THEN "touchscreen"
    ELSE IF env.type = "desktop" THEN "desktop"
    ELSE "minimal"

\* lines 229-256: the -fullscreen attribute set
SelectFullscreen(env, screen) ==
    IF env.type = "gaming_console" THEN TRUE
    ELSE IF env.type = "raspberry_pi" /\ screen.is_touch_optimized
         THEN screen.is_small_screen
    ELSE FALSE

(***************************************************************************)
(* The preference record and its file (~/.config/hamster/config.json).     *)
(* A dict is the sequence of its <<key, value>> items in insertion order;  *)
(* a JSON value is a string or an object of such items; a JSON text is the *)
(* sequence of tokens json.dump writes and json.load reads.                *)
(***************************************************************************)
Str(s) == [t |-> "str", s |-> s, items |-> <<>>]
Obj(items) == [t |-> "obj", s |-> "", items |-> items]

\* `key in d`
Has(d, key) == \E i \in 1..Len(d.items) : d.items[i][1] = key

\* d[key], for a key of d
Get(d, key) == d.items[CHOOSE i \in 1..Len(d.items) : d.items[i][1] = key][2]

\* the items after d[key] = value: an existing key keeps its place
SetItem(items, key, value) ==
    IF \E i \in 1..Len(items) : items[i][1] = key
    THEN [i \in 1..Len(items) |->
             IF items[i][1] = key THEN <<key, value>> ELSE items[i]]
    ELSE Append(items, <<key, value>>)

Set(d, key, value) == Obj(SetItem(d.items, key, value))

Tok(kind, s) == [k |-> kind, s |-> s]

\* json.dump
RECURSIVE Dump(_), DumpItems(_, _)
Dump(v) ==
    IF v.t = "str" THEN <<Tok("str", v.s)>>
    ELSE <<Tok("{", "")>> \o DumpItems(v.items, 1) \o <<Tok("}", "")>>
DumpItems(items, i) ==
    IF i > Len(items) THEN <<>>
    ELSE <<Tok("key", items[i][1])>> \o Dump(items[i][2]) \o DumpItems(items, i + 1)

\* json.load: the value read from position i on and the position after it
ParseFailed == [ok |-> FALSE, v |-> Str(""), next |-> 0]

RECURSIVE ParseValue(_, _), ParseItems(_, _, _)
ParseValue(toks, i) ==
    IF i > Len(toks) THEN ParseFailed
    ELSE IF toks[i].k = "str" THEN [ok |-> TRUE, v |-> Str(toks[i].s), next |-> i + 1]
    ELSE IF toks[i].k = "{" THEN ParseItems(toks, i + 1, <<>>)
    ELSE ParseFailed
ParseItems(toks, i, acc) ==
    IF i > Len(toks) THEN ParseFailed
    ELSE IF toks[i].k = "}" THEN [ok |-> TRUE, v |-> Obj(acc), next |-> i + 1]
    ELSE IF toks[i].k = "key"
         THEN LET r == ParseValue(toks, i + 1)
              IN  IF r.ok THEN ParseItems(toks, r.next, SetItem(acc, toks[i].s, r.v))
                  ELSE ParseFailed
    ELSE ParseFailed

\* json.load of a whole text: ok is FALSE when it raises
Load(toks) ==
    LET r == ParseValue(toks, 1)
    IN  IF r.ok /\ r.next = Len(toks) + 1 THEN r ELSE ParseFailed

\* lines 182-194
StationKeys == <<"callsign", "grid_square", "qth", "operator">>
UiKeys == <<"theme", "font_size", "touch_mode">>

StationDefault(key) ==
    CASE key = "callsign" -> "N0CALL"
      [] key = "grid_square" -> "FN42xx"
      [] key = "qth" -> "Home Station"
      [] key = "operator" -> "Ham Operator"

default_config ==
    Obj(<<<<"station", Obj([i \in 1..Len(StationKeys) |->
                               <<StationKeys[i], Str(StationDefault(StationKeys[i]))>>])>>,
          <<"ui", Obj([i \in 1..Len(UiKeys) |-> <<UiKeys[i], Str("auto")>>])>>>>)

\* the file: whether it exists, and its text
FileMissing == [exists |-> FALSE, text |-> <<>>]
FileWith(text) == [exists |-> TRUE, text |-> text]

\* self.config before load_config has returned
NoConfig == Obj(<<>>)

\* what the file operations of one call do: all succeed ("ok"), os.makedirs
\* raises, open() raises, or the write raises after part of the text
IoOutcomes == {"ok", "makedirs_raises", "open_raises", "write_raises"}

\* the text left behind by a write that raises: open(..., 'w') has emptied
\* the file and json.dump has written some of the tokens
PartialText(text) == SubSeq(text, 1, Len(text) \div 2)

\* the texts of the JSON strings a preference file can hold, and the keys of
\* default_config that are substrings of each
T_OneKey == "station"
T_BothKeys == "station ui"
KeysWithin(s) ==
    CASE s = T_OneKey -> {"station"}
      [] s = T_BothKeys -> {"station", "ui"}
      [] OTHER -> {}

\* line 203, `key in config` for the value json.load returned: a key of an
\* object, a substring of a string
In(key, v) == IF v.t = "obj" THEN Has(v, key) ELSE key \in KeysWithin(v.s)

\* line 204: the item assignment raises TypeError on a string
MergeRaises(v) ==
    v.t # "obj" /\ \E i \in 1..Len(default_config.items) : ~In(default_config.items[i][1], v)

\* a merge that puts the default in place of a section the file has
RECURSIVE MergeDefaultsOverwrite(_, _, _)
MergeDefaultsOverwrite(cfg, defaults, i) ==
    IF i > Len(defaults.items) THEN cfg
    ELSE MergeDefaultsOverwrite(Set(cfg, defaults.items[i][1], defaults.items[i][2]),
                                defaults, i + 1)

\* lines 202-204: the loop over the keys of default_config, from key i on
RECURSIVE MergeDefaults(_, _, _)
MergeDefaults(cfg, defaults, i) ==
    IF i > Len(defaults.items) THEN cfg
    ELSE LET key == defaults.items[i][1]
         IN  IF ~In(key, cfg)
             THEN MergeDefaults(Set(cfg, key, defaults.items[i][2]), defaults, i + 1)
             ELSE MergeDefaults(cfg, defaults, i + 1)

\* lines 196-209, the body of the try statement: the config returned, the
\* file left and the exception raised ("none": none), for the file f found and
\* the outcome io of the file operations
TryLoad(f, io) ==
    IF io = "makedirs_raises"
    THEN [config |-> NoConfig, file |-> f, caught |-> io]
    ELSE IF f.exists
    THEN LET r == Load(f.text)
         IN  IF io = "open_raises"
             THEN [config |-> NoConfig, file |-> f, caught |-> io]
             ELSE IF ~r.ok
             THEN [config |-> NoConfig, file |-> f, caught |-> "parse_raises"]
             ELSE IF MergeRaises(r.v)
             THEN [config |-> NoConfig, file |-> f, caught |-> "merge_raises"]
             ELSE [config |-> MergeDefaults(r.v, default_config, 1), file |-> f,
                   caught |-> "none"]
    ELSE CASE io = "open_raises" ->
                [config |-> NoConfig, file |-> f, caught |-> io]
           [] io = "write_raises" ->
                [config |-> NoConfig,
                 file |-> FileWith(PartialText(Dump(default_config))), caught |-> io]
           [] OTHER ->
                [config |-> default_config, file |-> FileWith(Dump(default_config)),
                 caught |-> "none"]

\* a load_config without the except clause: what the body raises reaches the
\* caller
load_config_no_except(f, io) ==
    LET r == TryLoad(f, io)
    IN  [config |-> r.config, file |-> r.file, caught |-> "none",
         raised |-> r.caught # "none"]

\* lines 179-211: the config returned, the file left, the exception caught by
\* the except clause (lines 210-211) and whether one reaches the caller
load_config(f, io) ==
    LET r == TryLoad(f, io)
    IN  [config |-> IF r.caught # "none" THEN default_config ELSE r.config,
         file |-> r.file, caught |-> r.caught, raised |-> FALSE]

\* lines 213-220: the file left by save_config
save_config(cfg, f, io) ==
    CASE io = "open_raises" -> f
      [] io = "write_raises" -> FileWith(PartialText(Dump(cfg)))
      [] OTHER -> FileWith(Dump(cfg))

\* line 167
LoadConfig ==
    /\ pc = "load_config"
    /\ \E io \in IoOutcomes :
          /\ config' = load_config(file, io).config
          /\ file' = load_config(file, io).file
          /\ caught' = load_config(file, io).caught
          \* an exception out of load_config ends __init__ and reaches main
          /\ pc' = IF load_config(file, io).raised THEN "exit_error" ELSE "setup_window"
    /\ UNCHANGED <<extVars, detVars, winVars, uiVars, runVars>>

\* the entries of the station tab the user retypes, and what they type
EditedKeys == SUBSET {"callsign", "grid_square"}
T_Typed == "W1AW"

\* lines 1098-1104, after show_settings (835-837) and create_station_tab
\* (1013-1048) have built the entries and the user has edited them
SaveStationSettings ==
    /\ pc = "mainloop"
    /\ dialog = "none"
    /\ \E typed \in EditedKeys, io \in IoOutcomes \ {"makedirs_raises"} :
          LET \* line 1041: entry.insert(0, self.config['station'].get(key, ''))
              entry(key) ==
                  IF key \in typed THEN T_Typed
                  ELSE IF Has(Get(config, "station"), key)
                       THEN Get(Get(config, "station"), key).s ELSE ""
              RECURSIVE Store(_, _)
              Store(station, i) ==
                  IF i > Len(StationKeys) THEN station
                  ELSE Store(Set(station, StationKeys[i], Str(entry(StationKeys[i]))), i + 1)
              edited == Set(config, "station", Store(Get(config, "station"), 1))
          IN  \* line 1039 raises on a record that is no dict of dicts
              /\ config.t = "obj"
              /\ Get(config, "station").t = "obj"
              /\ config' = edited
              /\ file' = save_config(edited, file, io)
              /\ caught' = IF io = "ok" THEN "none" ELSE io
    /\ dialog' = "Settings"
    /\ UNCHANGED <<extVars, detVars, winVars, pc, uiVars, services, workers, after_cb>>

(***************************************************************************)
(* Widgets and the status display.                                         *)
(***************************************************************************)
\* the services of the status display, in the order update_status queries them
Services == <<"ssh", "bluetooth", "network", "direwolf", "qsstv">>

\* lines 617-623: the keys of self.status_labels
LabelKeys == {"ssh", "bluetooth", "network", "direwolf", "qsstv"}

\* a label: its text (with the address shown in a "Connected" text), its
\* colour, and the poll cycle whose snapshot it shows (0: none)
Label(text, ip, fg, cycle) == [text |-> text, ip |-> ip, fg |-> fg, cycle |-> cycle]

\* a status line: its text ("Checking system status...", "Detected" /
\* "Running on" with the parts named, or "Active" with the active services
\* and the address), and the poll cycle whose snapshot it shows (0: none)
StatusLine(text, items, ip, cycle) ==
    [text |-> text, items |-> items, ip |-> ip, cycle |-> cycle]

\* a widget that does not exist
NoLabel == Label("", <<>>, "", 0)
NoStatusLine == StatusLine("", <<>>, None, 0)
NoInfoText == [kernel |-> FALSE, cycle |-> 0]
NoCallback == [pending |-> FALSE, text |-> NoStatusLine]

\* no handler that calls subprocess.Popen is in progress
NoPopen == [script |-> "none", ok |-> FALSE]

\* the font sizes before setup_styles has run
NoFonts == [title |-> 0, button |-> 0, text |-> 0]

\* no handler has called run_script_in_terminal
NoTerminal == [script |-> "none", spawned |-> <<>>]

\* the terminal emulators of a machine with a desktop installed
DesktopTerminals == {"x-terminal-emulator", "xterm"}

\* the state before create_widgets and check_system_status have run
NothingBuilt ==
    /\ services = [ssh |-> FALSE, bluetooth |-> FALSE, ip |-> None,
                   direwolf |-> FALSE, qsstv |-> FALSE]
    /\ widgets = {}
    /\ status_labels = [k \in LabelKeys |-> NoLabel]
    /\ status_text = NoStatusLine
    /\ info_text_widget = NoInfoText
    /\ workers = <<>>
    /\ dialog = "none"
    /\ after_cb = NoCallback
    /\ popen = NoPopen
    /\ fonts = NoFonts

(***************************************************************************)
(* Actions of the interactive thread during construction.                  *)
(***************************************************************************)
DetectEnvironment ==
    /\ pc = "detect_environment"
    /\ environment' = detect_environment(host)
    /\ pc' = "detect_input_methods"
    /\ UNCHANGED <<cfgVars, extVars, host, input_methods, screen_info, winVars, uiVars, runVars>>

DetectInputMethods ==
    /\ pc = "detect_input_methods"
    /\ \E devices \in EventDeviceLists, mice \in 0..1, joysticks \in 0..MaxJoysticks :
          /\ input_methods' = detect_input_methods(devices, mice, joysticks)
          /\ udevadm_calls' = UdevadmCalls(devices, 1)
    /\ pc' = "detect_screen_info"
    /\ UNCHANGED <<cfgVars, popen, fonts, installed, terminal, host, environment, screen_info,
                   winVars, uiVars, runVars>>

DetectScreenInfo ==
    /\ pc = "detect_screen_info"
    /\ \E xrandr \in XrandrOutcomes :
          \* tk.Tk() is called in the except branch only
          \E tk \in IF NeedsTk(xrandr) THEN TkOutcomes ELSE {TkRaises} :
             screen_info' = detect_screen_info(environment, input_methods, xrandr, tk)
    /\ pc' = "load_config"
    /\ UNCHANGED <<cfgVars, extVars, host, environment, input_methods, winVars, uiVars, runVars>>

\* lines 169-170: tk.Tk(), then setup_window. A tk.Tk() that raises (no
\* display to open) ends __init__; main prints the error and calls
\* sys.exit(1) (lines 1219-1223)
SetupWindow ==
    /\ pc = "setup_window"
    /\ \E root \in {"ok", "raise"} :
          IF root = "raise"
          THEN /\ pc' = "exit_error"
               /\ UNCHANGED winVars
          ELSE /\ window_mode' = SelectMode(environment, screen_info)
               /\ fullscreen' = SelectFullscreen(environment, screen_info)
               /\ pc' = "setup_styles"
    /\ UNCHANGED <<cfgVars, extVars, detVars, uiVars, runVars>>

\* a font size that looks at the small screen first
get_font_size_small_first(screen, base_size) ==
    IF screen.is_small_screen THEN base_size + 2
    ELSE IF screen.is_touch_optimized THEN base_size + 4
    ELSE base_size

\* lines 316-323
get_font_size(screen, base_size) ==
    IF screen.is_touch_optimized THEN base_size + 4
    ELSE IF screen.is_small_screen THEN base_size + 2
    ELSE base_size

\* lines 342-344: the base sizes of the title, button and text fonts
TitleBase == 24
ButtonBase == 14
TextBase == 11

\* lines 325-364: of the styles the model keeps the three font sizes
SetupStyles ==
    /\ pc = "setup_styles"
    /\ fonts' = [title |-> get_font_size(screen_info, TitleBase),
                 button |-> get_font_size(screen_info, ButtonBase),
                 text |-> get_font_size(screen_info, TextBase)]
    /\ pc' = "create_widgets"
    /\ UNCHANGED <<cfgVars, popen, udevadm_calls, installed, terminal, detVars, winVars,
                   uiVars, runVars>>

(***************************************************************************)
(* SpecDetect: the detector's constructor, then load_config and           *)
(* setup_window (lines 166-174), on a machine without a preference file.   *)
(***************************************************************************)
InputDefault ==
    [keyboard |-> TRUE, mouse |-> FALSE, touchscreen |-> FALSE,
     gamepad |-> FALSE, joystick_devices |-> <<>>]

InitDetect ==
    /\ host \in Hosts
    /\ environment = EnvDefault
    /\ input_methods = InputDefault
    /\ screen_info = ScreenDefault
    /\ window_mode = Unset
    /\ fullscreen = FALSE
    /\ pc = "detect_environment"
    /\ NothingBuilt
    /\ udevadm_calls = <<>>
    /\ installed = DesktopTerminals
    /\ terminal = NoTerminal
    /\ config = NoConfig
    /\ file = FileMissing
    /\ caught = "none"

NextDetect ==
    \/ DetectEnvironment
    \/ DetectInputMethods
    \/ DetectScreenInfo
    \/ LoadConfig
    \/ SetupWindow

SpecDetect == InitDetect /\ [][NextDetect]_vars

(***************************************************************************)
(* SpecProbe: the detector's constructor on a machine whose probes have a  *)
(* fixed outcome each, kept in host: the files and variables read by       *)
(* detect_environment, the event devices and what udevadm does for each,   *)
(* the mouse and joystick nodes, and what xrandr and tk.Tk() do.           *)
(***************************************************************************)
ProbedHosts ==
    [cpuinfo: {Unreadable, T_BCM},
     desktop_session: {None},
     xdg_current_desktop: CurrentDesktops,
     device_model: {Unreadable, <<"R", "G", "3", "5">>},
     systemd: {TRUE},
     devices: EventDeviceLists,
     mice: {0},
     joysticks: {0},
     xrandr: XrandrOutcomes,
     tk: {TkRaises, [raises |-> FALSE, width |-> SmallWidth, height |-> SmallHeight]}]

InitProbe ==
    /\ host \in ProbedHosts
    /\ environment = EnvDefault
    /\ input_methods = InputDefault
    /\ screen_info = ScreenDefault
    /\ window_mode = Unset
    /\ fullscreen = FALSE
    /\ pc = "detect_environment"
    /\ NothingBuilt
    /\ udevadm_calls = <<>>
    /\ installed = DesktopTerminals
    /\ terminal = NoTerminal
    /\ config = NoConfig
    /\ file = FileMissing
    /\ caught = "none"

\* line 28
ProbeInputMethods ==
    /\ pc = "detect_input_methods"
    /\ "devices" \in DOMAIN host
    /\ input_methods' = detect_input_methods(host.devices, host.mice, host.joysticks)
    /\ udevadm_calls' = UdevadmCalls(host.devices, 1)
    /\ pc' = "detect_screen_info"
    /\ UNCHANGED <<cfgVars, popen, fonts, installed, terminal, host, environment, screen_info,
                   winVars, uiVars, runVars>>

\* line 29
ProbeScreenInfo ==
    /\ pc = "detect_screen_info"
    /\ "xrandr" \in DOMAIN host
    /\ screen_info' = detect_screen_info(environment, input_methods, host.xrandr, host.tk)
    /\ pc' = "load_config"
    /\ UNCHANGED <<cfgVars, extVars, host, environment, input_methods, winVars, uiVars, runVars>>

NextProbe ==
    \/ DetectEnvironment
    \/ ProbeInputMethods
    \/ ProbeScreenInfo

SpecProbe == InitProbe /\ [][NextProbe]_vars

(***************************************************************************)
(* SpecSelect: setup_window and setup_styles applied to an arbitrary        *)
(* descriptor, every field of which is drawn independently of the others.  *)
(***************************************************************************)
EnvTypes == {"unknown", "raspberry_pi", "desktop", "gaming_console", "minimal_linux"}

InitSelect ==
    /\ host \in {h \in Hosts : h.cpuinfo = Unreadable /\ h.device_model = Unreadable
                                /\ h.desktop_session = None
                                /\ h.xdg_current_desktop = None /\ ~h.systemd}
    /\ environment \in [type: EnvTypes, is_pi: BOOLEAN, is_desktop: BOOLEAN,
                        is_console: BOOLEAN, has_systemd: {FALSE},
                        desktop_environment: {None}]
    /\ input_methods \in [keyboard: {TRUE}, mouse: {FALSE}, touchscreen: BOOLEAN,
                          gamepad: {FALSE}, joystick_devices: {<<>>}]
    /\ screen_info \in [width: {DefaultWidth}, height: {DefaultHeight},
                        dpi: {DefaultDpi}, is_small_screen: BOOLEAN,
                        is_touch_optimized: BOOLEAN]
    /\ window_mode = Unset
    /\ fullscreen = FALSE
    /\ pc = "setup_window"
    /\ NothingBuilt
    /\ udevadm_calls = IF input_methods.touchscreen THEN <<1>> ELSE <<>>
    /\ installed = DesktopTerminals
    /\ terminal = NoTerminal
    /\ config = default_config
    /\ file = FileWith(Dump(default_config))
    /\ caught = "none"

NextSelect ==
    \/ SetupWindow
    \/ SetupStyles

SpecSelect == InitSelect /\ [][NextSelect]_vars

(***************************************************************************)
(* AdaptiveHamsterGUI: theme, widgets, and the rest of the constructor.    *)
(***************************************************************************)
\* number of poll cycles started in one run (the startup cycle included)
MaxCycles == 2

\* lines 287-314
get_theme_color(mode, element) ==
    IF mode \in {"fullscreen_console", "touchscreen"}
    THEN CASE element = "bg_primary" -> "#2c3e50"
           [] element = "bg_secondary" -> "#34495e"
           [] element = "fg_primary" -> "#ecf0f1"
           [] element = "fg_secondary" -> "#bdc3c7"
           [] element = "accent" -> "#3498db"
           [] element = "success" -> "#27ae60"
           [] element = "warning" -> "#f39c12"
           [] element = "error" -> "#e74c3c"
           [] OTHER -> "#000000"
    ELSE CASE element = "bg_primary" -> "#ffffff"
           [] element = "bg_secondary" -> "#f8f9fa"
           [] element = "fg_primary" -> "#212529"
           [] element = "fg_secondary" -> "#6c757d"
           [] element = "accent" -> "#007bff"
           [] element = "success" -> "#28a745"
           [] element = "warning" -> "#ffc107"
           [] element = "error" -> "#dc3545"
           [] OTHER -> "#000000"

\* lines 448-454 with 474-475, 484, 491: the attributes each layout sets
WidgetsOf(mode) ==
    IF mode = "desktop" THEN {"status_labels", "info_text_widget"}
    ELSE IF mode \in {"touchscreen", "fullscreen_console"} THEN {"status_text"}
    ELSE {"status_labels"}

\* lines 440-454, 608-665
CreateWidgets ==
    /\ pc = "create_widgets"
    /\ widgets' = WidgetsOf(window_mode)
    /\ status_labels' =
          IF "status_labels" \in WidgetsOf(window_mode)
          THEN [k \in LabelKeys |->
                   Label("Checking...", <<>>, get_theme_color(window_mode, "warning"), 0)]
          ELSE status_labels
    /\ status_text' =
          IF "status_text" \in WidgetsOf(window_mode)
          THEN StatusLine("Checking system status...", <<>>, None, 0)
          ELSE status_text
    /\ pc' = "setup_input_handlers"
    /\ UNCHANGED <<cfgVars, extVars, detVars, winVars, info_text_widget, runVars>>

\* lines 366-379: the bindings are the event actions below
SetupInputHandlers ==
    /\ pc = "setup_input_handlers"
    /\ pc' = "check_system_status"
    /\ UNCHANGED <<cfgVars, extVars, detVars, winVars, uiVars, runVars>>

(***************************************************************************)
(* AdaptiveHamsterGUI.check_system_status: the update_status thread.       *)
(***************************************************************************)
EmptyDict == [k \in {} |-> FALSE]

\* a thread that has just been started (line 764): its position, its
\* status_info, its index in the label loop, the queries of it that raised,
\* and whether it has called update_status_display
NewWorker ==
    [pc |-> "ssh", status_info |-> EmptyDict, idx |-> 1, raised |-> {},
     published |-> FALSE]

\* line 764
StartWorker == workers' = Append(workers, NewWorker)

\* the order in which update_status inserts its keys: a dict iterates in it
InsertionOrder == <<"ssh", "bluetooth", "network", "ip", "direwolf", "qsstv">>

Items(info) == SelectSeq(InsertionOrder, LAMBDA k : k \in DOMAIN info)

\* lines 770-771: the items that have a label
LabelItems(info) == SelectSeq(Items(info), LAMBDA k : k \in LabelKeys)

\* Python's truth value of a dict value: a bool, or an address or None
TruthyValue(k, v) == IF k = "ip" THEN Truthy(v) ELSE v

\* s[:n]
Take(s, n) == SubSeq(s, 1, IF Len(s) < n THEN Len(s) ELSE n)

\* lines 772-778
LabelFor(mode, info, key, cycle) ==
    LET ip == IF "ip" \in DOMAIN info THEN info["ip"] ELSE None
        value == info[key]
        fg == IF value THEN get_theme_color(mode, "success")
                       ELSE get_theme_color(mode, "error")
    IN  IF key = "network" /\ Truthy(ip)
        THEN Label("Connected", Take(ip, 15), fg, cycle)
        ELSE Label(IF value THEN "Active" ELSE "Inactive", <<>>, fg, cycle)

\* lines 782-785
StatusLineFor(info, cycle) ==
    LET ip == IF "ip" \in DOMAIN info THEN info["ip"] ELSE None
        active_services ==
            SelectSeq(Items(info), LAMBDA k : k # "ip" /\ TruthyValue(k, info[k]))
    IN  StatusLine("Active", active_services, IF Truthy(ip) THEN ip ELSE None, cycle)

\* lines 768, 780, 789: the stages of update_status_display from `stage` on
StageOrder == <<"labels", "status_text", "info_text">>
StageWidget(stage) ==
    CASE stage = "labels" -> "status_labels"
      [] stage = "status_text" -> "status_text"
      [] stage = "info_text" -> "info_text_widget"

RECURSIVE StageFrom(_, _)
StageFrom(ws, i) ==
    IF i > Len(StageOrder) THEN "done"
    ELSE IF StageWidget(StageOrder[i]) \in ws THEN StageOrder[i]
    ELSE StageFrom(ws, i + 1)

\* what one external query does: it returns what it finds on the machine
\* ("ok"), or subprocess.run raises ("raise")
QueryOutcomes == {"ok", "raise"}

Working(w) == w \in 1..Len(workers) /\ workers[w].pc \notin {"done", "aborted"}

\* the positions of the interactive thread inside root.mainloop(): waiting
\* for an event, or in a handler that waits for an external command
InMainloop == {"mainloop", "load_system_info", "run_script_in_terminal",
               "install_dependencies"}

\* a widget call from a thread other than the interactive one, while the
\* interactive thread is not in mainloop, may raise RuntimeError
WidgetCallMayRaise == pc \notin InMainloop

\* lines 738-741 (systemctl is-active) and 754-756 (which), for one service:
\* an exception leaves the loop and the try block (lines 761-762)
QueryService(w, svc, next) ==
    /\ Working(w)
    /\ workers[w].pc = svc
    /\ \E r \in QueryOutcomes :
          workers' = [workers EXCEPT ![w] =
              IF r = "raise"
              THEN [@ EXCEPT !.pc = "aborted", !.raised = @ \cup {svc}]
              ELSE [@ EXCEPT !.pc = next,
                             !.status_info =
                                 (svc :> (r = "ok" /\ services[svc])) @@ @]]
    /\ UNCHANGED <<cfgVars, extVars, detVars, winVars, pc, uiVars, services, dialog, after_cb>>

QuerySsh(w) == QueryService(w, "ssh", "bluetooth")
QueryBluetooth(w) == QueryService(w, "bluetooth", "network")

\* lines 743-751 (hostname -I)
QueryNetwork(w) ==
    /\ Working(w)
    /\ workers[w].pc = "network"
    /\ \E r \in QueryOutcomes :
          LET ip == IF r = "ok" THEN services.ip ELSE None
          IN  workers' = [workers EXCEPT ![w] =
                  [@ EXCEPT !.pc = "direwolf",
                            !.status_info =
                                ("network" :> Truthy(ip)) @@ ("ip" :> ip) @@ @,
                            !.raised = IF r = "raise" THEN @ \cup {"network"} ELSE @]]
    /\ UNCHANGED <<cfgVars, extVars, detVars, winVars, pc, uiVars, services, dialog, after_cb>>

QueryDirewolf(w) == QueryService(w, "direwolf", "qsstv")
QueryQsstv(w) == QueryService(w, "qsstv", "publish")

\* a publish that also writes the record to the preference file
PublishAndSave(w) ==
    /\ Working(w)
    /\ workers[w].pc = "publish"
    /\ workers' = [workers EXCEPT ![w] =
          [@ EXCEPT !.pc = StageFrom(widgets, 1), !.published = TRUE, !.idx = 1]]
    /\ file' = FileWith(Dump(config))
    /\ UNCHANGED <<config, caught, extVars, detVars, winVars, pc, uiVars, services,
                   dialog, after_cb>>

\* line 759: update_status_display is entered
Publish(w) ==
    /\ Working(w)
    /\ workers[w].pc = "publish"
    /\ workers' = [workers EXCEPT ![w] =
          [@ EXCEPT !.pc = StageFrom(widgets, 1), !.published = TRUE, !.idx = 1]]
    /\ UNCHANGED <<cfgVars, extVars, detVars, winVars, pc, uiVars, services, dialog, after_cb>>

\* lines 770-778: one pass of the loop that writes a label
WriteStatusLabel(w) ==
    /\ Working(w)
    /\ workers[w].pc = "labels"
    /\ LET info == workers[w].status_info
           keys == LabelItems(info)
           i == workers[w].idx
       IN  \/ /\ status_labels' =
                    [status_labels EXCEPT ![keys[i]] = LabelFor(window_mode, info, keys[i], w)]
              /\ workers' = [workers EXCEPT ![w] =
                    IF i < Len(keys) THEN [@ EXCEPT !.idx = i + 1]
                    ELSE [@ EXCEPT !.pc = StageFrom(widgets, 2)]]
           \/ /\ WidgetCallMayRaise
              /\ workers' = [workers EXCEPT ![w].pc = "aborted"]
              /\ UNCHANGED status_labels
    /\ UNCHANGED <<cfgVars, extVars, detVars, winVars, pc, widgets, status_text, info_text_widget,
                   services, dialog, after_cb>>

\* lines 780-786
WriteStatusText(w) ==
    /\ Working(w)
    /\ workers[w].pc = "status_text"
    /\ \/ /\ status_text' = StatusLineFor(workers[w].status_info, w)
          /\ workers' = [workers EXCEPT ![w].pc = StageFrom(widgets, 3)]
       \/ /\ WidgetCallMayRaise
          /\ workers' = [workers EXCEPT ![w].pc = "aborted"]
          /\ UNCHANGED status_text
    /\ UNCHANGED <<cfgVars, extVars, detVars, winVars, pc, widgets, status_labels, info_text_widget,
                   services, dialog, after_cb>>

\* lines 789-811: update_system_info_text; uname may raise (the Kernel line
\* is then left out), and an exception of the widget calls is caught inside
UpdateSystemInfoText(w) ==
    /\ Working(w)
    /\ workers[w].pc = "info_text"
    /\ \/ \E kernel \in BOOLEAN :
             info_text_widget' = [kernel |-> kernel, cycle |-> w]
       \/ /\ WidgetCallMayRaise
          /\ UNCHANGED info_text_widget
    /\ workers' = [workers EXCEPT ![w].pc = "done"]
    /\ UNCHANGED <<cfgVars, extVars, detVars, winVars, pc, widgets, status_labels, status_text,
                   services, dialog, after_cb>>

WorkerStep(w) ==
    \/ QuerySsh(w)
    \/ QueryBluetooth(w)
    \/ QueryNetwork(w)
    \/ QueryDirewolf(w)
    \/ QueryQsstv(w)
    \/ Publish(w)
    \/ WriteStatusLabel(w)
    \/ WriteStatusText(w)
    \/ UpdateSystemInfoText(w)

(***************************************************************************)
(* The interactive thread: the end of the constructor and the event loop.  *)
(***************************************************************************)
\* line 174
CheckSystemStatus ==
    /\ pc = "check_system_status"
    /\ StartWorker
    /\ pc' = "show_environment_info"
    /\ UNCHANGED <<cfgVars, extVars, detVars, winVars, uiVars, services, dialog, after_cb>>

\* line 723: env['type'].replace('_', ' ')
TypeText(type) ==
    CASE type = "raspberry_pi" -> "raspberry pi"
      [] type = "gaming_console" -> "gaming console"
      [] type = "minimal_linux" -> "minimal linux"
      [] OTHER -> type

\* lines 712-723
EnvironmentInfoText(env, inputs) ==
    LET info_parts ==
            (IF env.is_pi THEN <<"Raspberry Pi detected">> ELSE <<>>)
            \o (IF inputs.touchscreen THEN <<"touchscreen available">> ELSE <<>>)
            \o (IF inputs.gamepad THEN <<"gamepad(s)">> ELSE <<>>)
    IN  IF info_parts # <<>>
        THEN StatusLine("Detected", info_parts, None, 0)
        ELSE StatusLine("Running on", <<TypeText(env.type)>>, None, 0)

\* lines 706-729
ShowEnvironmentInfo ==
    /\ pc = "show_environment_info"
    /\ IF "status_text" \in widgets
       THEN /\ status_text' = EnvironmentInfoText(environment, input_methods)
            /\ after_cb' = [pending |-> TRUE, text |-> status_text]
       ELSE UNCHANGED <<status_text, after_cb>>
    /\ pc' = "mainloop"
    /\ UNCHANGED <<cfgVars, extVars, detVars, winVars, widgets, status_labels, info_text_widget,
                   services, workers, dialog>>

\* line 729: the callback, run by the event loop (also by the one a modal
\* message box runs)
RestoreStatusText ==
    /\ pc = "mainloop"
    /\ after_cb.pending
    /\ status_text' = after_cb.text
    /\ after_cb' = NoCallback
    /\ UNCHANGED <<cfgVars, extVars, detVars, winVars, pc, widgets, status_labels, info_text_widget,
                   services, workers, dialog>>

\* lines 883-886, bound to <F5> (line 393)
RefreshStatus ==
    /\ pc = "mainloop"
    /\ dialog = "none"
    /\ Len(workers) < MaxCycles
    /\ StartWorker
    /\ dialog' = "Refresh"
    /\ UNCHANGED <<cfgVars, extVars, detVars, winVars, pc, uiVars, services, after_cb>>

\* the user closes the message box (lines 888-890 return)
DismissDialog ==
    /\ pc = "mainloop"
    /\ dialog # "none"
    /\ dialog' = "none"
    /\ popen' = NoPopen
    /\ terminal' = NoTerminal
    /\ UNCHANGED <<cfgVars, fonts, udevadm_calls, installed, detVars, winVars, pc, uiVars,
                   services, workers, after_cb>>

(***************************************************************************)
(* Handlers of the user's actions, run by the interactive thread.          *)
(***************************************************************************)
\* the message boxes of launch_aprs: title, then message
T_Launching == "APRS Chatty X: Launching APRS Chatty X..."
T_LaunchFailed == "Error: Failed to launch APRS Chatty X"
T_AprsScript == "launch_aprs_chatty_x.sh"

\* a launch_aprs that reports the launch whatever Popen did
LaunchDialogAlways(ok) == T_Launching

\* lines 820-824: the box shown after subprocess.Popen returned (ok) or raised
LaunchDialog(ok) == IF ok THEN T_Launching ELSE T_LaunchFailed

\* lines 817-824, bound to <Key-1> and <Return> (lines 384, 389)
LaunchAprs ==
    /\ pc = "mainloop"
    /\ dialog = "none"
    /\ \E ok \in BOOLEAN :
          /\ popen' = [script |-> T_AprsScript, ok |-> ok]
          /\ dialog' = LaunchDialog(ok)
    /\ UNCHANGED <<cfgVars, fonts, udevadm_calls, installed, terminal, detVars, winVars, pc,
                   uiVars, services, workers, after_cb>>

\* a toggle that takes the console's look when it enters fullscreen
ToggleFullscreenSwitchMode ==
    /\ pc = "mainloop"
    /\ dialog = "none"
    /\ fullscreen' = ~fullscreen
    /\ window_mode' = IF fullscreen THEN window_mode ELSE "fullscreen_console"
    /\ UNCHANGED <<cfgVars, extVars, detVars, pc, uiVars, runVars>>

\* a toggle that also marks the descriptor for the layout it enters
ToggleFullscreenRedetect ==
    /\ pc = "mainloop"
    /\ dialog = "none"
    /\ fullscreen' = ~fullscreen
    /\ screen_info' = [screen_info EXCEPT !.is_touch_optimized = ~fullscreen]
    /\ UNCHANGED <<cfgVars, extVars, host, environment, input_methods, window_mode,
                   pc, uiVars, runVars>>

\* lines 435-438, bound to <F11> (line 394)
ToggleFullscreen ==
    /\ pc = "mainloop"
    /\ dialog = "none"
    /\ fullscreen' = ~fullscreen
    /\ UNCHANGED <<cfgVars, extVars, detVars, window_mode, pc, uiVars, runVars>>

\* lines 850-852 and 1110-1123: the system-info window is created and
\* load_system_info starts; the interactive thread waits in subprocess.run
\* for uname and df (lines 1186-1201)
ShowSystemInfo ==
    /\ pc = "mainloop"
    /\ dialog = "none"
    /\ pc' = "load_system_info"
    /\ UNCHANGED <<cfgVars, extVars, detVars, winVars, uiVars, runVars>>

\* lines 1151-1208: the commands have returned or raised (line 1203), the
\* text is inserted; the window holds the grab until it is closed
LoadSystemInfo ==
    /\ pc = "load_system_info"
    /\ pc' = "mainloop"
    /\ dialog' = "System Information"
    /\ UNCHANGED <<cfgVars, extVars, detVars, winVars, uiVars, services, workers, after_cb>>

\* lines 839-841 and 900-905, bound to <Key-4>: the interactive thread waits
\* in subprocess.run(['which', terminal])
CheckDependencies ==
    /\ pc = "mainloop"
    /\ dialog = "none"
    /\ terminal' = [script |-> "check_dependencies.sh", spawned |-> <<>>]
    /\ pc' = "run_script_in_terminal"
    /\ UNCHANGED <<cfgVars, popen, fonts, udevadm_calls, installed, detVars, winVars,
                   uiVars, runVars>>

\* lines 843-846, bound to <Key-5> (line 388) and to the Install button (line
\* 542); hamster-gui.py lines 348-353, reached from the button (line 186) and
\* from quick_action(5) (line 315): askyesno is open and the interactive
\* thread waits for the answer
InstallDependencies ==
    /\ pc = "mainloop"
    /\ dialog = "none"
    /\ dialog' = "Install Dependencies"
    /\ pc' = "install_dependencies"
    /\ UNCHANGED <<cfgVars, extVars, detVars, winVars, uiVars, services, workers, after_cb>>

\* lines 844-848: the user answers; on yes run_script_in_terminal is called
AnswerInstall ==
    /\ pc = "install_dependencies"
    /\ dialog' = "none"
    /\ \E yes \in BOOLEAN :
          IF yes
          THEN /\ terminal' = [script |-> "install_dependencies.sh", spawned |-> <<>>]
               /\ pc' = "run_script_in_terminal"
          ELSE /\ pc' = "mainloop"
               /\ UNCHANGED terminal
    /\ UNCHANGED <<cfgVars, popen, fonts, udevadm_calls, installed, detVars, winVars,
                   uiVars, services, workers, after_cb>>

\* line 904: the order in which the terminals are tried
Terminals == <<"x-terminal-emulator", "gnome-terminal", "xterm", "konsole">>

\* what the calls of run_script_in_terminal do: they return ("ok"), the
\* first subprocess.run(['which', ...]) raises (no `which` on the machine), or
\* subprocess.Popen raises for the terminal that was found
TerminalOutcomes == {"ok", "which_raises", "popen_raises"}

\* a loop without the break: every terminal that is found is started
RECURSIVE StartTerminalsNoBreak(_, _)
StartTerminalsNoBreak(inst, i) ==
    IF i > Len(Terminals) THEN <<>>
    ELSE IF Terminals[i] \in inst
         THEN <<Terminals[i]>> \o StartTerminalsNoBreak(inst, i + 1)
    ELSE StartTerminalsNoBreak(inst, i + 1)

\* lines 905-908: the loop from terminal i on; the break at line 908 ends it
\* after the first terminal `which` finds
RECURSIVE StartTerminals(_, _)
StartTerminals(inst, i) ==
    IF i > Len(Terminals) THEN <<>>
    ELSE IF Terminals[i] \in inst THEN <<Terminals[i]>>
    ELSE StartTerminals(inst, i + 1)

\* lines 911-912
FailedToRun(script) ==
    IF script = "install_dependencies.sh"
    THEN "Error: Failed to run install_dependencies.sh"
    ELSE "Error: Failed to run check_dependencies.sh"

\* lines 900-912: the terminals started, and the error box shown ("none":
\* no box)
run_script_in_terminal(script, inst, r) ==
    IF r = "which_raises" \/ (r = "popen_raises" /\ inst # {})
    THEN [spawned |-> <<>>, dialog |-> FailedToRun(script)]
    ELSE IF StartTerminals(inst, 1) = <<>>
         THEN [spawned |-> <<>>, dialog |-> "Error: No terminal emulator found"]
    ELSE [spawned |-> StartTerminals(inst, 1), dialog |-> "none"]

RunScriptInTerminal ==
    /\ pc = "run_script_in_terminal"
    /\ \E r \in TerminalOutcomes :
          /\ terminal' = [terminal EXCEPT
                !.spawned = run_script_in_terminal(terminal.script, installed, r).spawned]
          /\ dialog' = run_script_in_terminal(terminal.script, installed, r).dialog
    /\ pc' = "mainloop"
    /\ UNCHANGED <<cfgVars, popen, fonts, udevadm_calls, installed, detVars, winVars,
                   uiVars, services, workers, after_cb>>

(***************************************************************************)
(* SpecPoll: the machines the run starts on are detected with the          *)
(* operators above; the run starts where SpecDetect ends.                  *)
(***************************************************************************)
T_Address == <<"1", "0", ".", "0", ".", "0", ".", "2">>
T_Address6 ==
    <<"f", "e", "8", "0", ":", ":", "1", "a", "2", "b", ":", "3", "c", "4", "d", ":", "5", "e">>

\* what the status queries can find
ServiceStates ==
    {[ssh |-> FALSE, bluetooth |-> FALSE, ip |-> None, direwolf |-> FALSE, qsstv |-> FALSE],
     [ssh |-> TRUE, bluetooth |-> FALSE, ip |-> T_Address, direwolf |-> TRUE, qsstv |-> FALSE],
     [ssh |-> TRUE, bluetooth |-> TRUE, ip |-> T_Address6, direwolf |-> TRUE, qsstv |-> TRUE]}

NoXrandr == [raises |-> TRUE, lines |-> <<>>]
Xrandr(res) == [raises |-> FALSE, lines |-> <<Line("mode", res)>>]

\* a desktop PC, a Raspberry Pi with its touchscreen, a handheld console and
\* a machine without a desktop session
Machines ==
    {[host |-> [cpuinfo |-> T_Intel, desktop_session |-> <<"L", "X", "D", "E">>,
                xdg_current_desktop |-> None, device_model |-> Unreadable,
                systemd |-> TRUE],
      devices |-> <<"plain">>, mice |-> 1, joysticks |-> 0,
      xrandr |-> Xrandr(<<SmallWidth + 1, SmallHeight + 1>>), tk |-> TkRaises],
     [host |-> [cpuinfo |-> T_BCM, desktop_session |-> None,
                xdg_current_desktop |-> None, device_model |-> <<"P", "i", "4">>,
                systemd |-> TRUE],
      devices |-> <<"plain", "touch">>, mice |-> 0, joysticks |-> 0,
      xrandr |-> Xrandr(<<SmallWidth, SmallHeight>>), tk |-> TkRaises],
     [host |-> [cpuinfo |-> Unreadable, desktop_session |-> None,
                xdg_current_desktop |-> None,
                device_model |-> <<"A", "n", "b", "e", "r", "n", "i", "c">>,
                systemd |-> FALSE],
      devices |-> <<>>, mice |-> 0, joysticks |-> 1,
      xrandr |-> NoXrandr, tk |-> TkRaises],
     [host |-> [cpuinfo |-> T_Intel, desktop_session |-> None,
                xdg_current_desktop |-> None, device_model |-> Unreadable,
                systemd |-> FALSE],
      devices |-> <<>>, mice |-> 0, joysticks |-> 0,
      xrandr |-> NoXrandr, tk |-> TkRaises]}

InitPoll ==
    \E m \in Machines :
        LET env == detect_environment(m.host)
            inputs == detect_input_methods(m.devices, m.mice, m.joysticks)
            screen == detect_screen_info(env, inputs, m.xrandr, m.tk)
        IN  /\ host = m.host
            /\ environment = env
            /\ input_methods = inputs
            /\ screen_info = screen
            /\ window_mode = SelectMode(env, screen)
            /\ fullscreen = SelectFullscreen(env, screen)
            /\ pc = "setup_styles"
            /\ services \in ServiceStates
            /\ widgets = {}
            /\ status_labels = [k \in LabelKeys |-> NoLabel]
            /\ status_text = NoStatusLine
            /\ info_text_widget = NoInfoText
            /\ workers = <<>>
            /\ dialog = "none"
            /\ after_cb = NoCallback
            /\ popen = NoPopen
            /\ fonts = NoFonts
            /\ udevadm_calls = UdevadmCalls(m.devices, 1)
            /\ installed = DesktopTerminals
            /\ terminal = NoTerminal
            /\ config = default_config
            /\ file = FileWith(Dump(default_config))
            /\ caught = "none"

NextPoll ==
    \/ SetupStyles
    \/ CreateWidgets
    \/ SetupInputHandlers
    \/ CheckSystemStatus
    \/ ShowEnvironmentInfo
    \/ RestoreStatusText
    \/ RefreshStatus
    \/ DismissDialog
    \/ \E w \in 1..MaxCycles : WorkerStep(w)

SpecPoll == InitPoll /\ [][NextPoll]_vars

(***************************************************************************)
(* SpecConfig: the launcher from load_config on (lines 167-177), on each   *)
(* preference file the home directory can hold, then the poll and the      *)
(* station tab of the settings window.                                     *)
(***************************************************************************)
\* the sections a preference file can hold: none, the defaults, the user's
\* own values, or some of the fields only
StationSections ==
    {Get(default_config, "station"),
     Set(Get(default_config, "station"), "callsign", Str(T_Typed)),
     Obj(<<<<"grid_square", Str("EM10")>>>>),
     Obj(<<>>)}

UiSections ==
    {Get(default_config, "ui"),
     Obj(<<<<"theme", Str("dark")>>>>)}

Documents ==
    {Obj(<<>>)}
        \cup {Obj(<<<<"station", st>>>>) : st \in StationSections}
        \cup {Obj(<<<<"ui", ui>>>>) : ui \in UiSections}
        \cup {Obj(<<<<"station", st>>, <<"ui", ui>>>>) : st \in StationSections, ui \in UiSections}
        \cup {Obj(<<<<"ui", ui>>, <<"station", st>>>>) : st \in StationSections, ui \in UiSections}

\* no file, a file holding a document, a file cut short, an empty file and
\* files holding a JSON string
Files ==
    {FileMissing}
        \cup {FileWith(Dump(d)) : d \in Documents}
        \cup {FileWith(PartialText(Dump(default_config))), FileWith(<<>>),
              FileWith(Dump(Str(T_OneKey))), FileWith(Dump(Str(T_BothKeys)))}

InitConfig ==
    \* the desktop PC and the Raspberry Pi with its touchscreen
    \E m \in {n \in Machines : n.host.systemd} :
        LET env == detect_environment(m.host)
            inputs == detect_input_methods(m.devices, m.mice, m.joysticks)
        IN  /\ host = m.host
            /\ environment = env
            /\ input_methods = inputs
            /\ screen_info = detect_screen_info(env, inputs, m.xrandr, m.tk)
            /\ window_mode = Unset
            /\ fullscreen = FALSE
            /\ pc = "load_config"
            /\ services \in {s \in ServiceStates : s.ssh /\ ~s.bluetooth}
            /\ widgets = {}
            /\ status_labels = [k \in LabelKeys |-> NoLabel]
            /\ status_text = NoStatusLine
            /\ info_text_widget = NoInfoText
            /\ workers = <<>>
            /\ dialog = "none"
            /\ after_cb = NoCallback
            /\ popen = NoPopen
            /\ fonts = NoFonts
            /\ udevadm_calls = UdevadmCalls(m.devices, 1)
            /\ installed = DesktopTerminals
            /\ terminal = NoTerminal
            /\ config = NoConfig
            /\ file \in Files
            /\ caught = "none"

NextConfig ==
    \/ LoadConfig
    \/ SetupWindow
    \/ SetupStyles
    \/ CreateWidgets
    \/ SetupInputHandlers
    \/ CheckSystemStatus
    \/ ShowEnvironmentInfo
    \/ RestoreStatusText
    \/ SaveStationSettings
    \/ DismissDialog
    \/ \E w \in 1..MaxCycles : WorkerStep(w)

SpecConfig == InitConfig /\ [][NextConfig]_vars

(***************************************************************************)
(* SpecReload: load_config and save_config as functions. A session either  *)
(* starts on a preference file, or holds a record and saves it, after      *)
(* which the launcher is started again and loads what was saved.           *)
(***************************************************************************)
\* the station sections save_station_settings can leave in a record
Edits(cfg) ==
    IF cfg.t = "obj" /\ Get(cfg, "station").t = "obj"
    THEN {Set(cfg, "station", Set(Get(cfg, "station"), "callsign", Str(T_Typed)))}
    ELSE {}

\* the records a session can hold: what load_config returns, edited or not
Records ==
    LET loaded == {load_config(f, "ok").config : f \in Files}
    IN  loaded \cup UNION {Edits(cfg) : cfg \in loaded}

\* the files a record is saved over
OldFiles == {FileMissing, FileWith(Dump(default_config)), FileWith(<<>>)}

InitReload ==
    \E m \in {n \in Machines : n.mice = 1} :
        LET env == detect_environment(m.host)
            inputs == detect_input_methods(m.devices, m.mice, m.joysticks)
        IN  /\ host = m.host
            /\ environment = env
            /\ input_methods = inputs
            /\ screen_info = detect_screen_info(env, inputs, m.xrandr, m.tk)
            /\ window_mode = Unset
            /\ fullscreen = FALSE
            /\ services \in {s \in ServiceStates : s.ssh /\ ~s.bluetooth}
            /\ widgets = {}
            /\ status_labels = [k \in LabelKeys |-> NoLabel]
            /\ status_text = NoStatusLine
            /\ info_text_widget = NoInfoText
            /\ workers = <<>>
            /\ dialog = "none"
            /\ after_cb = NoCallback
            /\ popen = NoPopen
            /\ fonts = NoFonts
            /\ udevadm_calls = UdevadmCalls(m.devices, 1)
            /\ installed = DesktopTerminals
            /\ terminal = NoTerminal
            /\ caught = "none"
            /\ \/ /\ pc = "load_config"
                  /\ config = NoConfig
                  /\ file \in Files
               \/ /\ pc = "save_config"
                  /\ config \in Records
                  /\ file \in OldFiles

\* lines 213-220, called last in a session
SaveConfig ==
    /\ pc = "save_config"
    /\ \E io \in IoOutcomes \ {"makedirs_raises"} :
          /\ file' = save_config(config, file, io)
          /\ caught' = IF io = "ok" THEN "none" ELSE io
    /\ pc' = "load_config"
    /\ UNCHANGED <<extVars, detVars, winVars, uiVars, runVars, config>>

NextReload ==
    \/ SaveConfig
    \/ LoadConfig

SpecReload == InitReload /\ [][NextReload]_vars

(***************************************************************************)
(* SpecApp: the launcher from setup_styles on, with the startup poll and   *)
(* the handlers of the user's actions, on the desktop PC and the Raspberry *)
(* Pi touchscreen. (F5 and its second poll thread are in SpecPoll.)        *)
(***************************************************************************)
InitApp ==
    \E m \in {n \in Machines : n.host.systemd} :
        LET env == detect_environment(m.host)
            inputs == detect_input_methods(m.devices, m.mice, m.joysticks)
            screen == detect_screen_info(env, inputs, m.xrandr, m.tk)
        IN  /\ host = m.host
            /\ environment = env
            /\ input_methods = inputs
            /\ screen_info = screen
            /\ window_mode = SelectMode(env, screen)
            /\ fullscreen = SelectFullscreen(env, screen)
            /\ pc = "setup_styles"
            /\ services \in {s \in ServiceStates : s.ssh /\ ~s.bluetooth}
            /\ widgets = {}
            /\ status_labels = [k \in LabelKeys |-> NoLabel]
            /\ status_text = NoStatusLine
            /\ info_text_widget = NoInfoText
            /\ workers = <<>>
            /\ dialog = "none"
            /\ after_cb = NoCallback
            /\ popen = NoPopen
            /\ fonts = NoFonts
            /\ udevadm_calls = UdevadmCalls(m.devices, 1)
            /\ installed = DesktopTerminals
            /\ terminal = NoTerminal
            /\ config = default_config
            /\ file = FileWith(Dump(default_config))
            /\ caught = "none"

NextApp ==
    \/ SetupStyles
    \/ CreateWidgets
    \/ SetupInputHandlers
    \/ CheckSystemStatus
    \/ ShowEnvironmentInfo
    \/ RestoreStatusText
    \/ LaunchAprs
    \/ ToggleFullscreen
    \/ ShowSystemInfo
    \/ LoadSystemInfo
    \/ CheckDependencies
    \/ RunScriptInTerminal
    \/ SaveStationSettings
    \/ DismissDialog
    \/ \E w \in 1..MaxCycles : WorkerStep(w)

SpecApp == InitApp /\ [][NextApp]_vars

(***************************************************************************)
(* SpecInstall: the launcher from setup_styles on, with the startup poll   *)
(* and the two handlers that call run_script_in_terminal, on machines with *)
(* every set of terminal emulators installed.                              *)
(***************************************************************************)
InitInstall ==
    \E m \in {n \in Machines : n.host.systemd} :
        LET env == detect_environment(m.host)
            inputs == detect_input_methods(m.devices, m.mice, m.joysticks)
            screen == detect_screen_info(env, inputs, m.xrandr, m.tk)
        IN  /\ host = m.host
            /\ environment = env
            /\ input_methods = inputs
            /\ screen_info = screen
            /\ window_mode = SelectMode(env, screen)
            /\ fullscreen = SelectFullscreen(env, screen)
            /\ pc = "setup_styles"
            /\ services \in {sv \in ServiceStates : sv.ssh /\ ~sv.bluetooth}
            /\ widgets = {}
            /\ status_labels = [k \in LabelKeys |-> NoLabel]
            /\ status_text = NoStatusLine
            /\ info_text_widget = NoInfoText
            /\ workers = <<>>
            /\ dialog = "none"
            /\ after_cb = NoCallback
            /\ popen = NoPopen
            /\ fonts = NoFonts
            /\ udevadm_calls = UdevadmCalls(m.devices, 1)
            /\ installed \in SUBSET {Terminals[i] : i \in 1..Len(Terminals)}
            /\ terminal = NoTerminal
            /\ config = default_config
            /\ file = FileWith(Dump(default_config))
            /\ caught = "none"

NextInstall ==
    \/ SetupStyles
    \/ CreateWidgets
    \/ SetupInputHandlers
    \/ CheckSystemStatus
    \/ ShowEnvironmentInfo
    \/ RestoreStatusText
    \/ CheckDependencies
    \/ InstallDependencies
    \/ AnswerInstall
    \/ RunScriptInTerminal
    \/ DismissDialog
    \/ \E w \in 1..MaxCycles : WorkerStep(w)

SpecInstall == InitInstall /\ [][NextInstall]_vars

(***************************************************************************)
(* SpecLife: one run of the launcher from the first line of the detector's *)
(* constructor (lines 26-29) through the constructor of the window (lines  *)
(* 166-177) into the event loop, with the startup poll and the handlers of *)
(* SpecApp, on a Raspberry Pi with its touchscreen and on a desktop PC.    *)
(***************************************************************************)
LifeHosts ==
    {h \in ProbedHosts :
        /\ h.device_model = Unreadable
        /\ \/ h.cpuinfo = T_BCM /\ h.xdg_current_desktop = None
              /\ h.devices = <<"touch">>
           \/ h.cpuinfo = Unreadable /\ h.xdg_current_desktop # None
              /\ h.devices = <<"plain">>
        /\ h.xrandr = Xrandr(<<SmallWidth, SmallHeight>>)
        /\ h.tk = TkRaises}

InitLife ==
    /\ host \in LifeHosts
    /\ environment = EnvDefault
    /\ input_methods = InputDefault
    /\ screen_info = ScreenDefault
    /\ window_mode = Unset
    /\ fullscreen = FALSE
    /\ pc = "detect_environment"
    /\ services \in {s \in ServiceStates : s.ssh /\ ~s.bluetooth}
    /\ widgets = {}
    /\ status_labels = [k \in LabelKeys |-> NoLabel]
    /\ status_text = NoStatusLine
    /\ info_text_widget = NoInfoText
    /\ workers = <<>>
    /\ dialog = "none"
    /\ after_cb = NoCallback
    /\ popen = NoPopen
    /\ fonts = NoFonts
    /\ udevadm_calls = <<>>
    /\ installed = DesktopTerminals
    /\ terminal = NoTerminal
    /\ config = NoConfig
    /\ file = FileMissing
    /\ caught = "none"

NextLife ==
    \/ DetectEnvironment
    \/ ProbeInputMethods
    \/ ProbeScreenInfo
    \/ LoadConfig
    \/ SetupWindow
    \/ SetupStyles
    \/ CreateWidgets
    \/ SetupInputHandlers
    \/ CheckSystemStatus
    \/ ShowEnvironmentInfo
    \/ RestoreStatusText
    \/ LaunchAprs
    \/ ToggleFullscreen
    \/ ShowSystemInfo
    \/ LoadSystemInfo
    \/ CheckDependencies
    \/ RunScriptInTerminal
    \/ SaveStationSettings
    \/ DismissDialog
    \/ \E w \in 1..MaxCycles : WorkerStep(w)

SpecLife == InitLife /\ [][NextLife]_vars

(***************************************************************************)
(* HamsterGUI (src/hamster-gui.py): the status poll of the console         *)
(* launcher. Each query is followed by the write of its own label.         *)
(***************************************************************************)
\* lines 127-134: the keys of self.status_labels
GuiLabelKeys == {"ssh", "bluetooth", "network", "controller", "direwolf", "qsstv"}

\* lines 243-272: the order of the checks, and the step after the last
GuiOrder == <<"ssh", "bluetooth", "network", "controller", "direwolf", "qsstv">>

GuiNext(step) ==
    CASE step = "ssh" -> "bluetooth"
      [] step = "bluetooth" -> "network"
      [] step = "network" -> "controller"
      [] step = "controller" -> "direwolf"
      [] step = "direwolf" -> "qsstv"
      [] step = "qsstv" -> "system_info"

\* a thread that has just been started (line 281): the check it is at, whether
\* it is about to query or to write the label, the status it has computed,
\* and the queries of it that raised
GuiNewWorker ==
    [pc |-> "ssh", phase |-> "query", status |-> "", ip |-> <<>>, raised |-> {}]

\* lines 286-288
GuiColor(status) ==
    IF status \in {"Active", "Connected", "Detected", "Installed"}
    THEN "#27ae60" ELSE "#e74c3c"

\* lines 244-246, 249-251, 265-267, 270-272: the status text of one check
GuiStatus(step, found) ==
    CASE step \in {"ssh", "bluetooth"} -> IF found THEN "Active" ELSE "Inactive"
      [] step \in {"direwolf", "qsstv"} -> IF found THEN "Installed" ELSE "Not Installed"
      [] step = "controller" -> IF found THEN "Detected" ELSE "Not Found"

\* lines 244-245, 249-250, 265-266, 270-271: a query whose exception ends
\* the thread (lines 277-278)
GuiQuery(w, step) ==
    /\ Working(w)
    /\ workers[w].pc = step /\ workers[w].phase = "query"
    /\ step \in {"ssh", "bluetooth", "direwolf", "qsstv"}
    /\ \E r \in QueryOutcomes :
          workers' = [workers EXCEPT ![w] =
              IF r = "raise"
              THEN [@ EXCEPT !.pc = "aborted", !.raised = @ \cup {step}]
              ELSE [@ EXCEPT !.phase = "write",
                             !.status = GuiStatus(step, services[step]),
                             !.ip = <<>>]]
    /\ UNCHANGED <<cfgVars, extVars, detVars, winVars, pc, uiVars, services, dialog, after_cb>>

\* lines 254-258: hostname -I; no address makes split()[0] raise IndexError
GuiQueryNetwork(w) ==
    /\ Working(w)
    /\ workers[w].pc = "network" /\ workers[w].phase = "query"
    /\ \E r \in QueryOutcomes :
          LET ip == IF r = "ok" THEN services.ip ELSE None
          IN  workers' = [workers EXCEPT ![w] =
                  [@ EXCEPT !.phase = "write",
                            !.status = IF Truthy(ip) THEN "Connected" ELSE "Disconnected",
                            !.ip = IF Truthy(ip) THEN ip ELSE <<>>,
                            !.raised = IF r = "raise" THEN @ \cup {"network"} ELSE @]]
    /\ UNCHANGED <<cfgVars, extVars, detVars, winVars, pc, uiVars, services, dialog, after_cb>>

\* line 261: os.path.exists('/dev/input/js0')
GuiQueryController(w) ==
    /\ Working(w)
    /\ workers[w].pc = "controller" /\ workers[w].phase = "query"
    /\ \E exists \in BOOLEAN :
          workers' = [workers EXCEPT ![w] =
              [@ EXCEPT !.phase = "write",
                        !.status = GuiStatus("controller", exists), !.ip = <<>>]]
    /\ UNCHANGED <<cfgVars, extVars, detVars, winVars, pc, uiVars, services, dialog, after_cb>>

\* lines 283-289: update_status_label, called by the thread after each check
update_status_label(w) ==
    /\ Working(w)
    /\ workers[w].pc \in GuiLabelKeys /\ workers[w].phase = "write"
    /\ \/ /\ status_labels' = [status_labels EXCEPT ![workers[w].pc] =
                Label(workers[w].status, workers[w].ip, GuiColor(workers[w].status), w)]
          /\ workers' = [workers EXCEPT ![w] =
                [@ EXCEPT !.pc = GuiNext(@), !.phase = "query"]]
       \/ /\ WidgetCallMayRaise
          /\ workers' = [workers EXCEPT ![w].pc = "aborted"]
          /\ UNCHANGED status_labels
    /\ UNCHANGED <<cfgVars, extVars, detVars, winVars, pc, widgets, status_text, info_text_widget,
                   services, dialog, after_cb>>

\* lines 291-306: update_system_info; kernel tells whether uname and df gave
\* the text or "System info unavailable" is shown
update_system_info(w) ==
    /\ Working(w)
    /\ workers[w].pc = "system_info"
    /\ \/ /\ \E kernel \in BOOLEAN :
                info_text_widget' = [kernel |-> kernel, cycle |-> w]
          /\ workers' = [workers EXCEPT ![w].pc = "done"]
       \/ /\ WidgetCallMayRaise
          /\ workers' = [workers EXCEPT ![w].pc = "aborted"]
          /\ UNCHANGED info_text_widget
    /\ UNCHANGED <<cfgVars, extVars, detVars, winVars, pc, widgets, status_labels, status_text,
                   services, dialog, after_cb>>

GuiWorkerStep(w) ==
    \/ \E step \in {"ssh", "bluetooth", "direwolf", "qsstv"} : GuiQuery(w, step)
    \/ GuiQueryNetwork(w)
    \/ GuiQueryController(w)
    \/ update_status_label(w)
    \/ update_system_info(w)

\* line 21 (HamsterGUI.__init__), then run() enters mainloop
GuiCheckSystemStatus ==
    /\ pc = "check_system_status"
    /\ workers' = Append(workers, GuiNewWorker)
    /\ pc' = "mainloop"
    /\ UNCHANGED <<cfgVars, extVars, detVars, winVars, uiVars, services, dialog, after_cb>>

\* lines 389-392, bound to <F5> (line 81)
GuiRefreshStatus ==
    /\ pc = "mainloop"
    /\ dialog = "none"
    /\ Len(workers) < MaxCycles
    /\ workers' = Append(workers, GuiNewWorker)
    /\ dialog' = "Refresh"
    /\ UNCHANGED <<cfgVars, extVars, detVars, winVars, pc, uiVars, services, after_cb>>

(***************************************************************************)
(* SpecGui: HamsterGUI from the end of create_widgets on.                  *)
(***************************************************************************)
InitGui ==
    /\ host \in {h \in Hosts : h.cpuinfo = Unreadable /\ h.device_model = Unreadable
                                /\ h.desktop_session = None
                                /\ h.xdg_current_desktop = None /\ ~h.systemd}
    /\ environment = EnvDefault
    /\ input_methods = InputDefault
    /\ screen_info = ScreenDefault
    /\ window_mode = Unset
    /\ fullscreen = FALSE
    /\ pc = "check_system_status"
    /\ services \in ServiceStates
    /\ widgets = {"status_labels", "info_label"}
    /\ status_labels = [k \in GuiLabelKeys |-> Label("Checking...", <<>>, "#f39c12", 0)]
    /\ status_text = NoStatusLine
    /\ info_text_widget = NoInfoText
    /\ workers = <<>>
    /\ dialog = "none"
    /\ after_cb = NoCallback
    /\ popen = NoPopen
    /\ fonts = NoFonts
    /\ udevadm_calls = <<>>
    /\ installed = DesktopTerminals
    /\ terminal = NoTerminal
    /\ config = NoConfig
    /\ file = FileMissing
    /\ caught = "none"

NextGui ==
    \/ GuiCheckSystemStatus
    \/ GuiRefreshStatus
    \/ DismissDialog
    \/ \E w \in 1..MaxCycles : GuiWorkerStep(w)

SpecGui == InitGui /\ [][NextGui]_vars

(***************************************************************************)
(* Claims.                                                                 *)
(***************************************************************************)
\* setup_window has run
ModeSelected == pc \notin {"detect_environment", "detect_input_methods",
                           "detect_screen_info", "load_config", "setup_window",
                           "exit_error"}

\* detect_environment has run
EnvironmentDetected == pc # "detect_environment"

\* detect_screen_info has run
ScreenDetected == pc \notin {"detect_environment", "detect_input_methods",
                             "detect_screen_info"}

\* C1: for every descriptor, setup_window assigns window_mode by the priority
\* gaming_console -> fullscreen_console; raspberry_pi and touch-optimized ->
\* touchscreen; desktop -> desktop; anything else -> minimal. A descriptor of
\* type desktop yields desktop whatever its other fields are.
C1_ModePriority ==
    ModeSelected =>
        /\ environment.type = "gaming_console" => window_mode = "fullscreen_console"
        /\ (environment.type = "raspberry_pi" /\ screen_info.is_touch_optimized)
              => window_mode = "touchscreen"
        /\ environment.type = "desktop" => window_mode = "desktop"
        /\ (\/ environment.type \in {"unknown", "minimal_linux"}
            \/ (environment.type = "raspberry_pi" /\ ~screen_info.is_touch_optimized))
              => window_mode = "minimal"

\* a desktop-class descriptor with every other signal set, after setup_window
C1_Witness ==
    /\ ModeSelected
    /\ environment.type = "desktop"
    /\ environment.is_pi /\ environment.is_console
    /\ input_methods.touchscreen /\ screen_info.is_small_screen
    /\ screen_info.is_touch_optimized
    /\ window_mode = "desktop"

\* C2: whenever the handheld signal fired (is_console), the window mode
\* selected is fullscreen_console, also when is_pi and a desktop variable
\* are present.
C2_ConsoleFullscreen ==
    (ModeSelected /\ environment.is_console) => window_mode = "fullscreen_console"

\* handheld, Raspberry Pi and desktop session detected together
C2_Witness ==
    /\ ModeSelected
    /\ environment.is_console /\ environment.is_pi /\ environment.is_desktop
    /\ window_mode = "fullscreen_console"

\* the machine-class signals of C3, read off the host
DesktopVarSet(h) == Truthy(PyOr(h.desktop_session, h.xdg_current_desktop))
HandheldFound(h) ==
    /\ h.device_model # Unreadable
    /\ \E m \in ConsoleMarkers : Contains(Lower(h.device_model), m)

C4_SmallScreen ==
    ScreenDetected =>
        /\ screen_info.is_small_screen
              <=> (screen_info.width < 801 \/ screen_info.height < 481)
        /\ (screen_info.width = 800 /\ screen_info.height = 480)
              => screen_info.is_small_screen
        /\ (screen_info.width = 801 /\ screen_info.height = 481)
              => ~screen_info.is_small_screen
        /\ (screen_info.width = 800 /\ screen_info.height = 481)
              => screen_info.is_small_screen

\* the boundary 800x481 was detected and is small
C4_Witness ==
    /\ ScreenDetected
    /\ screen_info.width = 800 /\ screen_info.height = 481
    /\ screen_info.is_small_screen

\* C5: is_touch_optimized is true exactly when (touchscreen and
\* is_small_screen) or is_pi.
C5_TouchOptimized ==
    ScreenDetected =>
        /\ environment.is_pi => screen_info.is_touch_optimized
        /\ (input_methods.touchscreen /\ screen_info.is_small_screen)
              => screen_info.is_touch_optimized
        /\ (~environment.is_pi
              /\ ~(input_methods.touchscreen /\ screen_info.is_small_screen))
              => ~screen_info.is_touch_optimized

\* a Raspberry Pi with a large screen and no touchscreen is touch-optimized
C5_Witness ==
    /\ ScreenDetected
    /\ environment.is_pi /\ ~input_methods.touchscreen
    /\ ~screen_info.is_small_screen
    /\ screen_info.is_touch_optimized

\* the update_status threads that are running
Running == {w \in 1..Len(workers) : Working(w)}

\* C6 as stated: a poll cycle in which exactly one of the five queries raised
\* has still run the other four and has published a snapshot that holds a
\* boolean for each of them.
C6_Original ==
    \A w \in 1..Len(workers) :
        (workers[w].pc \in {"done", "aborted"} /\ Cardinality(workers[w].raised) = 1)
            => /\ workers[w].published
               /\ \A s \in LabelKeys \ workers[w].raised :
                     /\ s \in DOMAIN workers[w].status_info
                     /\ workers[w].status_info[s] \in BOOLEAN

\* C7 as stated: at most one update_status thread runs at any time.
C7_Original == Cardinality(Running) <= 1

\* C8 as stated: a step that writes a status label, the status line or the
\* system-info text is a step of the interactive thread, not of an
\* update_status thread.
C8_Original ==
    [][(<<status_labels, status_text, info_text_widget>>'
            # <<status_labels, status_text, info_text_widget>>)
          => workers' = workers]_vars

\* C9 as stated: a label shows a value of a poll cycle only when that cycle
\* has run all its service queries (and none of them ended it).
C9_Original ==
    \A k \in DOMAIN status_labels :
        status_labels[k].cycle # 0
            => workers[status_labels[k].cycle].pc
                  \in {"publish", "labels", "status_text", "info_text",
                       "system_info", "done"}


\* the value load_config owes to field fk of section sk, for the document doc
\* read from the file: the file's value where it has the field, else the default
Owed(doc, sk, fk) ==
    IF Has(doc, sk) /\ Has(Get(doc, sk), fk)
    THEN Get(Get(doc, sk), fk)
    ELSE Get(Get(default_config, sk), fk)

Fields(sk) == {Get(default_config, sk).items[i][1] : i \in 1..Len(Get(default_config, sk).items)}

\* load_config has returned what it merged from a file holding a JSON object
LoadedFromFile ==
    /\ pc = "setup_window"
    /\ file.exists
    /\ Load(file.text).ok
    /\ Load(file.text).v.t = "obj"
    /\ config # default_config

\* C10 (as stated): for every existing preference file, the config returned
\* by load_config carries, for every field of every section, the file's value
\* where the file has the field and the default value where it has not,
\* whether the file lacks the whole section or only the field.
C10_Original ==
    LoadedFromFile
        => \A sk \in {"station", "ui"} : \A fk \in Fields(sk) :
              /\ Has(config, sk)
              /\ Has(Get(config, sk), fk)
              /\ Get(Get(config, sk), fk) = Owed(Load(file.text).v, sk, fk)


\* the file holds a JSON object with the station section and nothing else
StationOnly(f) ==
    /\ f.exists
    /\ Load(f.text).ok
    /\ Load(f.text).v.t = "obj"
    /\ Len(Load(f.text).v.items) = 1
    /\ Has(Load(f.text).v, "station")

\* a step of load_config in which nothing was raised
Loads == pc = "load_config" /\ pc' = "setup_window" /\ caught' = "none"

\* C11: load/merge is idempotent. Loading a file that holds the station
\* section only returns a record with the station and ui sections, the ui
\* section equal to the default one and the station section as in the file;
\* and load_config after a save_config that wrote the record returns a record
\* equal to the one saved.
C11_Idempotent ==
    [][Loads =>
          /\ StationOnly(file) =>
                /\ config'.t = "obj"
                /\ {config'.items[i][1] : i \in 1..Len(config'.items)} = {"station", "ui"}
                /\ Get(config', "ui") = Get(default_config, "ui")
                /\ Get(config', "station") = Get(Load(file.text).v, "station")
          /\ (config # NoConfig /\ caught = "none") => config' = config]_vars

\* a file with a station section of the user's own and no ui section has
\* been loaded
C11_Witness ==
    /\ pc = "setup_window"
    /\ caught = "none"
    /\ StationOnly(file)
    /\ Get(config, "station") # Get(default_config, "station")
    /\ Get(config, "ui") = Get(default_config, "ui")

\* C12 (as stated): once load_config has returned at startup without raising
\* anything, the file on disk holds the complete record returned to the
\* caller: it was written if it was missing, and written again if it lacked
\* keys.
C12_Original ==
    (pc = "setup_window" /\ caught = "none")
        => /\ file.exists
           /\ Load(file.text).ok
           /\ Load(file.text).v = config

\* a step of save_station_settings: the confirmation box opens
Saves == pc = "mainloop" /\ dialog = "none" /\ dialog' = "Settings"

\* C13: preference-file I/O failures are tolerated. load_config never raises
\* (the constructor goes on to setup_window), and when creating the directory,
\* reading, parsing or writing the file failed it returns the complete default
\* record; save_config does not raise on a write failure (the handler goes on
\* to its confirmation) and does not write again: the file is left as the
\* failed attempt left it.
C13_IoTolerated ==
    [][/\ (pc = "load_config" /\ pc' # pc) =>
              /\ pc' = "setup_window"
              /\ caught' # "none" => config' = default_config
       /\ (Saves /\ caught' # "none") =>
              /\ pc' = "mainloop"
              /\ file' \in {file, FileWith(PartialText(Dump(config')))}]_vars

\* load_config has met a file cut short and returned the defaults
C13_Witness ==
    /\ pc = "setup_window"
    /\ caught = "parse_raises"
    /\ file.exists /\ file.text # <<>>
    /\ config = default_config

\* C14: when subprocess.Popen raises in launch_aprs, the one box the handler
\* opens is the error box naming the APRS launch, not the "Launching..." box,
\* and the handler leaves window_mode, config and the status display as they
\* were.
C14_LaunchFailure ==
    [][(popen'.script = T_AprsScript /\ ~popen'.ok) =>
          /\ dialog' = T_LaunchFailed
          /\ popen.script = "none" =>
                /\ dialog = "none"
                /\ UNCHANGED <<window_mode, config, status_labels, status_text,
                               info_text_widget>>]_vars

\* the launch has failed while the display shows the snapshot of a poll
C14_Witness ==
    /\ popen = [script |-> T_AprsScript, ok |-> FALSE]
    /\ dialog = T_LaunchFailed
    /\ \/ status_text.cycle # 0
       \/ \E k \in LabelKeys : status_labels[k].cycle # 0

\* every udevadm call of the touchscreen scan raised
UdevadmFailed(h) == \A i \in 1..Len(h.devices) : h.devices[i] = "error"

\* the xrandr block ended in its except clause, and tk.Tk() raised too
DisplayProbesFailed(h) == NeedsTk(h.xrandr) /\ h.tk.raises

\* C15: constructing the detector never raises. For every combination of
\* probe failures the constructor runs to its end, and a field whose probe
\* failed keeps its default: is_pi with /proc/cpuinfo unreadable, is_console
\* with the device-tree model unreadable, touchscreen with udevadm raising,
\* width and height with xrandr missing or unparsable and the toolkit failing.
C15_DetectionTolerant ==
    /\ pc \in {"detect_environment", "detect_input_methods", "detect_screen_info",
               "load_config"}
    /\ pc # "detect_environment" =>
          /\ host.cpuinfo = Unreadable => ~environment.is_pi
          /\ host.device_model = Unreadable => ~environment.is_console
    /\ pc \in {"detect_screen_info", "load_config"} =>
          (UdevadmFailed(host) => ~input_methods.touchscreen)
    /\ pc = "load_config" =>
          (DisplayProbesFailed(host) =>
              /\ screen_info.width = DefaultWidth
              /\ screen_info.height = DefaultHeight)

\* every probe has failed and the constructor has returned
C15_Witness ==
    /\ pc = "load_config"
    /\ host.cpuinfo = Unreadable
    /\ host.device_model = Unreadable
    /\ host.devices # <<>> /\ UdevadmFailed(host)
    /\ host.xrandr.raises /\ host.tk.raises
    /\ environment.type = "minimal_linux"
    /\ screen_info = ScreenDefault

\* xrandr has produced no resolution: it could not be run, or its output has
\* no connected line with a parsable <width>x<height>+X+Y part
NoResolution(h) == h.xrandr.raises \/ ParseXrandr(h.xrandr.lines, 1).kind # "mode"

\* C16 (as stated): whenever xrandr produces no resolution, width and height
\* are the ones the toolkit reports, and they stay at 1024x768 only if the
\* toolkit fails as well.
C16_Original ==
    (pc = "load_config" /\ NoResolution(host)) =>
        IF host.tk.raises
        THEN screen_info.width = DefaultWidth /\ screen_info.height = DefaultHeight
        ELSE screen_info.width = host.tk.width /\ screen_info.height = host.tk.height

\* C17 (as stated): no failure is fatal. Whatever fails - a detection probe,
\* a status query, a preference-file operation, an external spawn, the
\* initialisation of the toolkit - the program keeps running and never
\* reaches the exit with an error in main().
C17_Original == pc # "exit_error"

\* C18 (as stated): once the UI is constructed, external commands are run by
\* the poll thread only; the interactive thread is never inside a
\* subprocess.run call of one of its handlers.
C18_Original == pc \notin {"load_system_info", "run_script_in_terminal"}

\* the positions of the interactive thread inside EnvironmentDetector.__init__
DetectorPcs == {"detect_environment", "detect_input_methods", "detect_screen_info"}

\* C19: the descriptor is computed exactly once, in the detector's
\* constructor, and never mutated. Each of its three fields changes only in
\* the step of the constructor that computes it; every position of the
\* constructor is left by the step taken there and never entered again; and
\* no step taken after the constructor (the rest of the window's constructor,
\* the poll threads, a launch, the settings save, the fullscreen toggle, the
\* opening and closing of a dialog) changes any of the three fields.
C19_DescriptorComputedOnce ==
    [][/\ environment' # environment => pc = "detect_environment"
       /\ input_methods' # input_methods => pc = "detect_input_methods"
       /\ screen_info' # screen_info => pc = "detect_screen_info"
       /\ pc \in DetectorPcs => pc' # pc
       /\ pc \notin DetectorPcs =>
             /\ pc' \notin DetectorPcs
             /\ UNCHANGED <<environment, input_methods, screen_info>>]_vars

\* C19 witness: the event loop after a poll thread has started, the station
\* settings were saved with an edit, F11 was pressed and the APRS script was
\* launched, with the descriptor still the one the constructor computed
C19_Witness ==
    /\ pc = "mainloop"
    /\ Len(workers) > 0
    /\ config \notin {NoConfig, default_config}
    /\ fullscreen # SelectFullscreen(environment, screen_info)
    /\ popen # NoPopen
    /\ environment = detect_environment(host)
    /\ input_methods = detect_input_methods(host.devices, host.mice, host.joysticks)
    /\ screen_info = detect_screen_info(environment, input_methods, host.xrandr, host.tk)

\* a step of a status poll: check_system_status starts a thread, or a thread
\* takes a step of update_status or update_status_display
PollStep == workers' # workers

\* C20: after startup (once line 167 has assigned self.config) the record
\* changes only in a step of save_station_settings, and a step of a status
\* poll leaves the record and the preference file as they were.
C20_ConfigFrame ==
    [][/\ (pc # "load_config" /\ config' # config) => Saves
       /\ PollStep => UNCHANGED <<config, file>>]_vars

\* C20 witness: a poll cycle has run to its end in a session whose record
\* was edited and written by save_station_settings
C20_Witness ==
    /\ pc = "mainloop"
    /\ Len(workers) > 0
    /\ workers[1].pc = "done"
    /\ config.t = "obj"
    /\ config # default_config
    /\ Get(config, "station").t = "obj"
    /\ Has(Get(config, "station"), "callsign")
    /\ Get(Get(config, "station"), "callsign") = Str(T_Typed)
    /\ file = FileWith(Dump(config))

\* C21: is_pi is true whenever /proc/cpuinfo can be read and its content
\* contains 'BCM' or 'Raspberry' (also content with 'Raspberry' and no
\* 'BCM'), and false when the file is unreadable or holds neither marker.
C21_Original ==
    EnvironmentDetected =>
        (environment.is_pi <=>
            /\ host.cpuinfo # Unreadable
            /\ Contains(host.cpuinfo, T_BCM) \/ Contains(host.cpuinfo, T_Raspberry))

\* the largest base size get_font_size is asked for (line 342)
MaxBaseSize == 24

\* setup_styles has asked get_font_size for the three sizes
StylesSet == pc = "create_widgets"

\* C22: get_font_size returns base+4 when is_touch_optimized is true (also
\* when is_small_screen is true as well), otherwise base+2 when
\* is_small_screen is true, otherwise the base size: for every base size up
\* to the largest, and for the three sizes setup_styles has stored.
C22_FontSize ==
    LET touch == screen_info.is_touch_optimized
        small == screen_info.is_small_screen
        extra == IF touch THEN 4 ELSE IF small THEN 2 ELSE 0
    IN  /\ \A base \in 1..MaxBaseSize :
              /\ touch => get_font_size(screen_info, base) = base + 4
              /\ (~touch /\ small) => get_font_size(screen_info, base) = base + 2
              /\ (~touch /\ ~small) => get_font_size(screen_info, base) = base
        /\ StylesSet =>
              /\ fonts.title = TitleBase + extra
              /\ fonts.button = ButtonBase + extra
              /\ fonts.text = TextBase + extra

\* C22 witness: setup_styles has run on a descriptor that is both
\* touch-optimized and small, and the title font is four above its base
C22_Witness ==
    /\ StylesSet
    /\ screen_info.is_touch_optimized
    /\ screen_info.is_small_screen
    /\ fonts.title = TitleBase + 4

\* detect_input_methods has run
InputsDetected == pc \notin {"detect_environment", "detect_input_methods"}

\* the positions of the event devices whose udevadm output holds the flag
TouchDevices(h) == {i \in 1..Len(h.devices) : h.devices[i] = "touch"}

\* C23: touchscreen is true if and only if the udevadm output of some event
\* device holds ID_INPUT_TOUCHSCREEN=1. The devices are queried in the order
\* of the glob; with a match the calls are those up to and including the
\* first matching device and none after it; without a match every device is
\* queried, also the ones after a device whose query raised.
C23_TouchEnumeration ==
    InputsDetected =>
        LET touch == TouchDevices(host)
            first == CHOOSE i \in touch : \A j \in touch : i <= j
        IN  /\ input_methods.touchscreen <=> touch # {}
            /\ touch # {} => udevadm_calls = [i \in 1..first |-> i]
            /\ touch = {} => udevadm_calls = [i \in 1..Len(host.devices) |-> i]

\* C23 witness: the query of the first device raised, the second device was
\* queried all the same and is the touchscreen
C23_Witness ==
    /\ InputsDetected
    /\ host.devices = <<"error", "touch">>
    /\ udevadm_calls = <<1, 2>>
    /\ input_methods.touchscreen

\* the elements get_theme_color has a colour for (lines 291-312)
ThemeElements == {"bg_primary", "bg_secondary", "fg_primary", "fg_secondary",
                  "accent", "success", "warning", "error"}

\* C24: window_mode is single-assignment. It changes only in the step of
\* setup_window, from unset to one of the four modes; once setup_window has
\* returned it is set, so the colours of get_theme_color are read from an
\* assigned mode; and a step that changes the -fullscreen attribute in the
\* event loop (toggle_fullscreen), like every other step of the event loop
\* and of the poll threads, leaves window_mode and every theme colour as
\* they were.
C24_ModeSingleAssignment ==
    [][/\ window_mode' # window_mode =>
             /\ pc = "setup_window"
             /\ window_mode = Unset
             /\ window_mode' \in {"fullscreen_console", "touchscreen", "desktop", "minimal"}
       /\ ModeSelected' => window_mode' # Unset
       /\ fullscreen' # fullscreen /\ pc = "mainloop" =>
             /\ window_mode' = window_mode
             /\ \A e \in ThemeElements :
                   get_theme_color(window_mode', e) = get_theme_color(window_mode, e)]_vars

\* C24 witness: F11 has left the fullscreen state setup_window chose, the
\* settings were saved and a poll thread has published, and window_mode is
\* still the mode setup_window assigned
C24_Witness ==
    /\ pc = "mainloop"
    /\ fullscreen # SelectFullscreen(environment, screen_info)
    /\ window_mode = SelectMode(environment, screen_info)
    /\ window_mode = "touchscreen"
    /\ dialog = "Settings"
    /\ Len(workers) > 0 /\ workers[1].published

\* the status line shows the snapshot of a poll cycle
ShowsSnapshot(line) == line.text = "Active" /\ line.cycle > 0

\* C25: in the touch layout, once a poll cycle has written its snapshot to
\* the status line, no later step (of show_environment_info, of its restore
\* callback, of the poll thread) sets the line to the 'Checking system
\* status...' placeholder or to the startup environment message.
C25_Original ==
    [][("status_text" \in widgets /\ ShowsSnapshot(status_text)) =>
          status_text'.text \notin {"Checking system status...", "Detected", "Running on"}]_vars

\* C26: a machine classified raspberry_pi is shown in touchscreen mode. With
\* type raspberry_pi, is_pi is true and so is is_touch_optimized, whatever
\* the touchscreen, the screen size and the desktop session are, and
\* setup_window selects touchscreen, never desktop or minimal.
C26_PiIsTouchscreen ==
    /\ (EnvironmentDetected /\ environment.type = "raspberry_pi") => environment.is_pi
    /\ (ScreenDetected /\ environment.type = "raspberry_pi") => screen_info.is_touch_optimized
    /\ (ModeSelected /\ environment.type = "raspberry_pi") => window_mode = "touchscreen"

\* C26 witness: setup_window has run on a Raspberry Pi with a desktop
\* session, without a touchscreen and with a screen that is not small
C26_Witness ==
    /\ ModeSelected
    /\ environment.type = "raspberry_pi"
    /\ environment.is_desktop
    /\ ~input_methods.touchscreen
    /\ ~screen_info.is_small_screen
    /\ window_mode = "touchscreen"

\* C27: a snapshot from an earlier-started poll cycle never overwrites the
\* snapshot of a later-started one: a step that writes a cycle's snapshot to
\* a label, to the status line or to the system-info text replaces what no
\* later-started cycle has written, so that after all cycles have finished
\* the display shows the cycle started last.
C27_Original ==
    [][/\ \A k \in LabelKeys :
             status_labels'[k] # status_labels[k] =>
                 status_labels'[k].cycle >= status_labels[k].cycle
       /\ (status_text' # status_text /\ status_text'.cycle > 0) =>
             status_text'.cycle >= status_text.cycle
       /\ info_text_widget' # info_text_widget =>
             info_text_widget'.cycle >= info_text_widget.cycle]_vars

\* C28: the 'Station settings saved!' confirmation is shown only when the
\* preference file was written: while the confirmation is open, the file
\* exists, parses, and its station section equals the station section of the
\* record in memory.
C28_Original ==
    dialog = "Settings" =>
        /\ file.exists
        /\ Load(file.text).ok
        /\ Load(file.text).v.t = "obj"
        /\ Has(Load(file.text).v, "station")
        /\ Get(Load(file.text).v, "station") = Get(config, "station")

\* the positions in the fixed order of the terminals that are installed
InstalledAt(inst) == {i \in 1..Len(Terminals) : Terminals[i] \in inst}

\* the first installed terminal in the fixed order
FirstInstalled(inst) ==
    Terminals[CHOOSE i \in InstalledAt(inst) : \A j \in InstalledAt(inst) : i <= j]

\* the step of run_script_in_terminal for the install script
InstallRuns ==
    /\ pc = "run_script_in_terminal"
    /\ pc' = "mainloop"
    /\ terminal.script = "install_dependencies.sh"

\* the boxes show_error opens
ErrorDialogs == {"Error: No terminal emulator found",
                 "Error: Failed to run install_dependencies.sh",
                 "Error: Failed to run check_dependencies.sh"}

\* what C29 and its original statement share: the install script is run only
\* from the yes answer to the confirmation; a no answer starts nothing and
\* opens no box; a yes answer starts at most one terminal, the first
\* installed one in the order x-terminal-emulator, gnome-terminal, xterm,
\* konsole.
InstallConfirmed ==
    /\ (pc' = "run_script_in_terminal" /\ terminal'.script = "install_dependencies.sh"
          /\ pc # "run_script_in_terminal") =>
            (pc = "install_dependencies" /\ dialog = "Install Dependencies")
    /\ terminal'.spawned # terminal.spawned /\ terminal'.spawned # <<>> =>
            pc = "run_script_in_terminal"
    /\ (pc = "install_dependencies" /\ pc' = "mainloop") =>
            (terminal' = terminal /\ popen' = popen /\ dialog' = "none")
    /\ InstallRuns =>
            /\ Len(terminal'.spawned) <= 1
            /\ terminal'.spawned # <<>> =>
                  (installed # {} /\ terminal'.spawned = <<FirstInstalled(installed)>>)

\* C29 as stated: besides the above, an error box is shown exactly when no
\* terminal is available.
C29_Original ==
    [][/\ InstallConfirmed
       /\ InstallRuns => (dialog' \in ErrorDialogs <=> installed = {})]_vars

\* C29 (amended): besides the above, the box 'No terminal emulator found' is
\* shown exactly when no terminal was started and no call raised, which is
\* the case on every machine without a terminal whose `which` works; the box
\* 'Failed to run install_dependencies.sh' is the only other box, it is shown
\* when a call raised, also on a machine with a terminal, and then no
\* terminal was started; without a box the first installed terminal runs.
C29_InstallAfterConfirm ==
    [][/\ InstallConfirmed
       /\ InstallRuns =>
            /\ dialog' \in {"none", "Error: No terminal emulator found",
                            "Error: Failed to run install_dependencies.sh"}
            /\ dialog' = "Error: No terminal emulator found" => installed = {}
            /\ dialog' # "none" => terminal'.spawned = <<>>
            /\ dialog' = "none" => terminal'.spawned = <<FirstInstalled(installed)>>
            /\ installed = {} => dialog' \in ErrorDialogs]_vars

\* C29 witness: the user said yes on a machine with gnome-terminal and
\* konsole, and gnome-terminal alone was started with the install script
C29_Witness ==
    /\ pc = "mainloop"
    /\ installed = {"gnome-terminal", "konsole"}
    /\ terminal = [script |-> "install_dependencies.sh", spawned |-> <<"gnome-terminal">>]
    /\ dialog = "none"

\* the four machine classes detect_environment can return
MachineClasses == {"raspberry_pi", "desktop", "gaming_console", "minimal_linux"}

\* every probe of detect_environment failed or found nothing
AllProbesFail(h) ==
    /\ h.cpuinfo = Unreadable
    /\ h.device_model = Unreadable
    /\ ~DesktopVarSet(h)

\* C30: after detect_environment returns, the type is never unknown: it is
\* one of raspberry_pi, desktop, gaming_console, minimal_linux for every
\* combination of probe outcomes, all probes failing included; and the type
\* is gaming_console exactly when is_console is true.
C30_TypeNeverUnknown ==
    EnvironmentDetected =>
        /\ environment.type \in MachineClasses
        /\ environment.type = "gaming_console" <=> environment.is_console
        /\ AllProbesFail(host) => environment.type = "minimal_linux"

\* every probe failed and the descriptor was classified minimal_linux
C30_Witness ==
    /\ EnvironmentDetected
    /\ AllProbesFail(host)
    /\ ~environment.is_pi /\ ~environment.is_desktop /\ ~environment.is_console
    /\ environment.type = "minimal_linux"

====
